---- MODULE Spec2Model ----
(***************************************************************************)
(* State-machine model of the replication core of                          *)
(* timescaledb-event-streamer: the replication context (LSN positions and  *)
(* the offset kept in the state store), and the paths that feed it.        *)
(***************************************************************************)
EXTENDS Integers, Sequences, FiniteSets, TLC

(***************************************************************************)
(* Bounds of the model.                                                    *)
(***************************************************************************)
\* XLogData.WALStart is drawn from 0..MaxWALStart
MaxWALStart == 0
\* len(XLogData.WALData) is drawn from 0..MaxWALData
MaxWALData == 1
\* explicit LSN arguments (processedLSN, receivedLSN) are drawn from 0..MaxLSNArg
MaxLSNArg == 1
\* XLogData.ServerTime is drawn from 1..MaxServerTime
MaxServerTime == 1
\* arguments of SetLastBeginLSN / SetLastCommitLSN / SetLastTransactionId: 1..MaxSetterArg
MaxSetterArg == 1
\* transactions the server commits
MaxTxns == 2
\* rows of one transaction
MaxRows == 2
\* postgresql.transaction.window.maxsize is drawn from 0..MaxWindowSize
MaxWindowSize == 2
\* events the sink collects before the model stops emitting
MaxSink == 3
\* rows of one transaction in the runs that look at the size-triggered flushes
MaxWindowRows == 3
\* tasks submitted to the dispatcher
MaxTasks == 3
\* tasks the dispatcher's queue holds before a producer blocks
MaxQueue == 2
\* calls of StopDispatcher on one dispatcher
MaxStops == 2
\* Sets made for one slot between Start and Stop
MaxSets == 2
\* goroutines that call the schema registry
MaxGoroutines == 2
\* calls of GetSchemaOrCreate on one registry
MaxCalls == 3
\* calls of GetSchemaOrCreate one goroutine has open at once
MaxDepth == 2
\* largest index given to a schema builder or to a field
MaxIndex == 1
\* largest value of a schema parameter
MaxParameter == 1
\* hypertables of the database
MaxHypertables == 3
\* chunks of the database
MaxChunks == 3
\* rows of the hypertable when its snapshot is taken
MaxSnapshotRows == 2
\* rows streamed while and after the snapshot is taken
MaxStreamed == 3
\* starts of the streamer with a snapshot to take
MaxRuns == 3
\* goroutines that call operations of the replication context
MaxWorkers == 3
\* signals sent to the process
MaxSignals == 2
\* characters of a property key
MaxKeyLen == 3
\* the largest value of the integer type of a range: its bounds are in 0..MaxRangeValue
MaxRangeValue == 21
\* characters of a topic prefix, of a schema name and of a table name
MaxNameLen == 2
\* the largest version handed to a schema builder
MaxVersion == 1
\* characters of a textual column default
MaxDefaultLen == 3
\* calls made on the two schema builders that can hold the same maps
MaxBuilderCalls == 4
\* calls of SnapshotContextTransaction that are made
MaxTransactionCalls == 2

WALStarts == 0..MaxWALStart
WALDataLens == 0..MaxWALData
LSNArgs == 0..MaxLSNArg
ServerTimes == 1..MaxServerTime
SetterArgs == 1..MaxSetterArg

\* pgtypes.XLogData, as far as the replication context reads it
XLogDatas == [WALStart : WALStarts, WALDataLen : WALDataLens, ServerTime : ServerTimes]

\* *pgtypes.LSN: the empty sequence is nil, <<l>> points to l
OptLSNs == {<<>>} \cup {<<l>> : l \in LSNArgs}

\* how a call on the state store can fail inside AcknowledgeProcessed
Failures == {"", "get", "set"}

VARIABLES
    lifecycle,            \* "new" (constructed), "started", "stopped"
    replicationSlotName,  \* rc.replicationSlotName
    lastBeginLSN,         \* rc.lastBeginLSN
    lastCommitLSN,        \* rc.lastCommitLSN
    lastReceivedLSN,      \* rc.lastReceivedLSN
    lastProcessedLSN,     \* rc.lastProcessedLSN
    lastTransactionId,    \* rc.lastTransactionId
    dispatcher,           \* rc.dispatcher: its queue, the task it runs, what it has run
    offsets,              \* the state store's offsets: slot name -> Offset
    storage,              \* what the state storage back-end holds (survives the process)
    lastCall,             \* the operation that produced this state, its error and its Set
    transactionWindow,    \* postgresql.transaction.window: [enabled, maxSize]
    wal,                  \* the transactions committed on the server, in commit order
    channel,              \* the replication channel: status and the next message to receive
    txnSeq,               \* rows of the current transaction the resolver has seen
    drained,              \* rows of the current transaction already emitted
    window,               \* the transaction tracker's buffer of the current transaction
    sink,                 \* the events the sink has received, in order
    session,              \* number of events in the sink when the channel last (re)connected
    uncommitted,          \* the last emitted row's transaction has no COMMIT processed yet
    interrupted,          \* a stop or a backend kill came while a transaction was partly emitted
    shutdown,             \* <<>>, or what the last successful Stop left behind
    resolverFactory,      \* NewTransactionResolver: the configuration it reads, what it returns
    stateSets,            \* per slot, the Sets on the state store since its Start: how many,
                          \* the value of the last, the value of the one before
    registry,             \* schema.Registry: schemaRegistry, its reentrant lock, the calls of
                          \* GetSchemaOrCreate that run their creator, what was created and returned
    builder,              \* a schemaBuilderImpl under construction, and what Build returned for
                          \* it and for its Clone
    catalog,              \* the system catalog mirror: the hypertables by id, the chunks by id
    snapshot,             \* the snapshot of one hypertable as the resolver sees it: the window
                          \* between the watermarks, the buffered snapshot rows, the streamed
                          \* rows, what was emitted
    snapshotter,          \* the snapshotter over the hypertables: the snapshot context held by the
                          \* state manager and the one the back-end holds, the run and what it snapshotted
    lsnLock,              \* rc.lsnMutex: the goroutine that holds it, and for every goroutine the
                          \* operation of the replication context it runs and the step it executes
    process,              \* the streamer's process: what its start finds, the position of start and of
                          \* the signal goroutine, the calls of the streamer's Start and Stop, the exit code
    configuring,          \* one call of GetOrDefault: the property key, the type of the default, the environment,
                          \* the value the configuration file holds, the default and what the call returned
    rangeColumn,          \* a column of an integer range type: the value of the INSERT, what the database stored
                          \* and what the streamer emitted for it
    dataTypeTest,         \* the data type test: its test case, and the envelopes its sink collected
    naming,               \* the schema manager's names for one hypertable: the topic prefix, the hypertable,
                          \* and the names once they are computed
    builders,             \* two schema builders, b and - once b.Clone() was called - c, the maps they refer to,
                          \* the last call made on them and what the last Build returned
    stateManager          \* the state manager's snapshot context as the state storage holds it, and for every
                          \* goroutine the call of SnapshotContextTransaction it is in

contextVars == <<lifecycle, replicationSlotName, lastBeginLSN, lastCommitLSN, lastReceivedLSN,
                 lastProcessedLSN, lastTransactionId, dispatcher, offsets, storage, lastCall>>

resolverVars == <<txnSeq, drained, window>>

streamVars == <<transactionWindow, wal, channel, txnSeq, drained, window, sink, session,
                uncommitted, interrupted, shutdown>>

\* the components beside the replication context and the streaming path
componentVars == <<resolverFactory, stateSets, registry, builder, catalog, snapshot,
                   snapshotter, lsnLock, process, configuring, rangeColumn, dataTypeTest,
                   naming, builders, stateManager>>

\* the components beside the resolver factory, beside the state store's Sets, beside the
\* schema registry, beside the schema builder, beside the catalog mirror and the registry
besideResolverFactory == <<stateSets, registry, builder, catalog, snapshot, snapshotter,
                           lsnLock, process, configuring, rangeColumn, dataTypeTest,
                           naming, builders, stateManager>>
besideStateSets == <<resolverFactory, registry, builder, catalog, snapshot, snapshotter,
                     lsnLock, process, configuring, rangeColumn, dataTypeTest, naming,
                     builders, stateManager>>
besideRegistry == <<resolverFactory, stateSets, builder, catalog, snapshot, snapshotter,
                    lsnLock, process, configuring, rangeColumn, dataTypeTest, naming,
                    builders, stateManager>>
besideBuilder == <<resolverFactory, stateSets, registry, catalog, snapshot, snapshotter,
                   lsnLock, process, configuring, rangeColumn, dataTypeTest, naming,
                   builders, stateManager>>
besideCatalog == <<resolverFactory, stateSets, builder, snapshot, snapshotter, lsnLock,
                   process, configuring, rangeColumn, dataTypeTest, naming, builders,
                   stateManager>>
besideSnapshot == <<resolverFactory, stateSets, registry, builder, catalog, snapshotter,
                    lsnLock, process, configuring, rangeColumn, dataTypeTest, naming,
                    builders, stateManager>>
besideSnapshotter == <<resolverFactory, stateSets, registry, builder, catalog, snapshot,
                       lsnLock, process, configuring, rangeColumn, dataTypeTest, naming,
                       builders, stateManager>>
besideLsnLock == <<resolverFactory, stateSets, registry, builder, catalog, snapshot,
                   snapshotter, process, configuring, rangeColumn, dataTypeTest, naming,
                   builders, stateManager>>
besideProcess == <<resolverFactory, stateSets, registry, builder, catalog, snapshot,
                   snapshotter, lsnLock, configuring, rangeColumn, dataTypeTest, naming,
                   builders, stateManager>>
besideConfiguring == <<resolverFactory, stateSets, registry, builder, catalog, snapshot,
                       snapshotter, lsnLock, process, rangeColumn, dataTypeTest, naming,
                       builders, stateManager>>
besideRangeColumn == <<resolverFactory, stateSets, registry, builder, catalog, snapshot,
                       snapshotter, lsnLock, process, configuring, dataTypeTest, naming,
                       builders, stateManager>>
besideDataTypeTest == <<resolverFactory, stateSets, registry, builder, catalog,
                        snapshot, snapshotter, lsnLock, process,
                        configuring, rangeColumn, naming, builders, stateManager>>
besideNaming == <<resolverFactory, stateSets, registry, builder, catalog, snapshot,
                  snapshotter, lsnLock, process, configuring,
                  rangeColumn, dataTypeTest, builders, stateManager>>
besideSchema == <<resolverFactory, stateSets, registry, builder, catalog, snapshot,
                  snapshotter, lsnLock, process, configuring,
                  rangeColumn, dataTypeTest, naming, stateManager>>
besideStateManager == <<resolverFactory, stateSets, registry, builder, catalog,
                        snapshot, snapshotter, lsnLock, process,
                        configuring, rangeColumn, dataTypeTest,
                        naming, builders>>

vars == <<lifecycle, replicationSlotName, lastBeginLSN, lastCommitLSN, lastReceivedLSN,
          lastProcessedLSN, lastTransactionId, dispatcher, offsets, storage, lastCall,
          transactionWindow, wal, channel, txnSeq, drained, window, sink, session,
          uncommitted, interrupted, shutdown, resolverFactory, stateSets, registry,
          builder, catalog, snapshot, snapshotter, lsnLock, process, configuring,
          rangeColumn, dataTypeTest, naming, builders, stateManager>>

lsnVars == <<lastBeginLSN, lastCommitLSN, lastReceivedLSN, lastProcessedLSN, lastTransactionId>>

(***************************************************************************)
(* Helpers                                                                 *)
(***************************************************************************)
EmptyMap == [k \in {} |-> 0]

Put(m, k, v) == [x \in (DOMAIN m) \cup {k} |-> IF x = k THEN v ELSE m[x]]

\* the record kept in lastCall: the operation, the error it returned ("" for none) and
\* the Set it made on the state store (<<>> for none)
Call(op, err, set) == [op |-> op, err |-> err, set |-> set]

\* &statestorage.Offset{}: the zero value
NewOffset == [LSN |-> 0, Timestamp |-> 0]

\* xld.WALStart + pglogrepl.LSN(len(xld.WALData))
EndLSNShort(xld) == xld.WALStart + xld.WALDataLen - 1
EndLSN(xld) == xld.WALStart + xld.WALDataLen

\* if newLastProcessedLSN > rc.lastProcessedLSN { rc.lastProcessedLSN = newLastProcessedLSN }
AdvanceUnguarded(current, newLastProcessedLSN) == newLastProcessedLSN
AdvancePastNew(current, newLastProcessedLSN) ==
    IF newLastProcessedLSN >= current THEN newLastProcessedLSN + 1 ELSE current
AdvanceInverted(current, newLastProcessedLSN) ==
    IF newLastProcessedLSN < current THEN newLastProcessedLSN ELSE current
Advance(current, newLastProcessedLSN) ==
    IF newLastProcessedLSN > current THEN newLastProcessedLSN ELSE current

\* o.LSN = rc.lastProcessedLSN; o.Timestamp = xld.ServerTime
UpdateOffsetAnew(o, lsn, xld) == [LSN |-> lsn, Timestamp |-> xld.ServerTime]
UpdateOffsetKeepLSN(o, lsn, xld) == [o EXCEPT !.Timestamp = xld.ServerTime]
UpdateOffsetOfStart(o, lsn, xld) == [o EXCEPT !.LSN = xld.WALStart, !.Timestamp = xld.ServerTime]
UpdateOffsetKeepTimestamp(o, lsn, xld) == [o EXCEPT !.LSN = lsn]
UpdateOffset(o, lsn, xld) == [o EXCEPT !.LSN = lsn, !.Timestamp = xld.ServerTime]

\* statestorage.Storage, by its contract: Get returns the offsets held, Set(key, value)
\* holds value under key, Start loads what the back-end holds, Stop and the periodic
\* writer flush the offsets held to the back-end
StorageGet == offsets
StorageSet(key, value) == Put(offsets, key, value)
StorageLoad == storage
StorageFlushNothing == storage
StorageFlush == offsets

\* rc.Offset(): nil (<<>>) when the slot has no offset, otherwise the stored offset
OffsetNotFound == <<>>
Offset ==
    IF replicationSlotName \in DOMAIN StorageGet
       THEN <<StorageGet[replicationSlotName]>>
       ELSE <<>>

\* the tasks that are submitted to the dispatcher, each once
Tasks == 1..MaxTasks

\* the dispatcher of a new replication context: nothing queued, nothing run
NewDispatcher ==
    [status |-> "new", queue |-> <<>>, current |-> <<>>, executed |-> <<>>,
     accepted |-> <<>>, rejected |-> {}, inline |-> <<>>, waiting |-> {}, pending |-> 0,
     stops |-> 0]

\* StartDispatcher: the consumer starts
StartDispatcher(d) == [d EXCEPT !.status = "running"]

\* StopDispatcher: the pending tasks are run, the running one first and the queued ones
\* in their order; then the queue is closed; pending: how many tasks the call found;
\* stops: how many times it was called
StopDispatcherUndrained(d) ==
    [d EXCEPT !.status = "closed", !.queue = <<>>, !.current = <<>>, !.waiting = {},
              !.pending = Len(d.current) + Len(d.queue), !.stops = @ + 1]
StopDispatcherReopening(d) ==
    [d EXCEPT !.status = IF @ = "closed" THEN "running" ELSE "closed",
              !.pending = Len(d.current) + Len(d.queue),
              !.stops = @ + 1,
              !.executed = d.executed \o d.current \o d.queue,
              !.queue = <<>>,
              !.current = <<>>,
              !.waiting = {}]
StopDispatcher(d) ==
    [d EXCEPT !.status = "closed",
              !.pending = Len(d.current) + Len(d.queue),
              !.stops = @ + 1,
              !.executed = d.executed \o d.current \o d.queue,
              !.queue = <<>>,
              !.current = <<>>,
              !.waiting = {}]

\* the tasks that were submitted in any way
Submitted(d) ==
    {d.accepted[i] : i \in 1..Len(d.accepted)} \cup d.rejected
        \cup {d.inline[i] : i \in 1..Len(d.inline)}

(***************************************************************************)
(* Initial state: a constructed replication context over an empty storage  *)
(***************************************************************************)
\* the channel before its first connection of a run
Idle == [status |-> "idle", txn |-> 1, msg |-> 0]

InitReplication(windows) ==
    /\ transactionWindow \in windows
    /\ wal = <<>>
    /\ channel = Idle
    /\ txnSeq = 0
    /\ drained = 0
    /\ window = <<>>
    /\ sink = <<>>
    /\ session = 0
    /\ uncommitted = FALSE
    /\ interrupted = FALSE
    /\ shutdown = <<>>
    /\ lifecycle = "new"
    /\ replicationSlotName = "slot_a"
    /\ lastBeginLSN = 0
    /\ lastCommitLSN = 0
    /\ lastReceivedLSN = 0
    /\ lastProcessedLSN = 0
    /\ lastTransactionId = 0
    /\ dispatcher = NewDispatcher
    /\ offsets = EmptyMap
    /\ storage = EmptyMap
    /\ lastCall = Call("NewReplicationContext", "", <<>>)

\* NewTransactionResolver has not been called; nothing but the defaults is configured
InitResolverFactory ==
    resolverFactory = [envEnabled |-> <<>>, envTimeout |-> <<>>, envMaxSize |-> <<>>,
                       fileEnabled |-> <<>>, fileMaxSize |-> <<>>, resolver |-> ""]

\* the slots the state store keeps offsets of
Slots == {"slot_a", "slot_b"}

\* statestorage.Offset values that are Set directly
Offsets == [LSN : LSNArgs, Timestamp : {1}]

\* no Set was made
NoSets == [slot \in Slots |-> [made |-> 0, last |-> <<>>, previous |-> <<>>]]

\* one more Set was made for the slot key
NoteSet(sets, key, value) ==
    [sets EXCEPT ![key] = [made |-> @.made + 1, last |-> <<value>>, previous |-> @.last]]

InitStateSets == stateSets = NoSets

\* the goroutines that use the registry
Goroutines == 1..MaxGoroutines

\* the schema names asked for: SourceSchemaName, which NewRegistry registers, and the
\* names of two schemas that are created on demand
SchemaNames == {"source", "a.Envelope", "a.Key"}

\* NewRegistry: the map with the source schemas registered, the lock free; schema 0 is
\* the source schema, the creators' schemas are numbered from 1
NewRegistry ==
    [schemaRegistry |-> [name \in {"source"} |-> 0],
     owner |-> 0,
     stacks |-> [g \in Goroutines |-> <<>>],
     invocations |-> [name \in SchemaNames |-> 0],
     returned |-> [name \in SchemaNames |-> {}],
     calls |-> 0]

InitRegistry == registry = NewRegistry

\* the schema types built: two primitive types, STRUCT with fields, ARRAY with a value
\* schema
SchemaTypes == {"INT32", "STRING", "STRUCT", "ARRAY"}

\* NewSchemaBuilder(schemaType): index -1, every other field its zero value
\* (<<>> is the nil pointer)
NewSchemaBuilder(schemaType) ==
    [fieldName |-> "",
     schemaName |-> "",
     schemaType |-> schemaType,
     optional |-> FALSE,
     defaultValue |-> <<>>,
     index |-> 0 - 1,
     parameters |-> EmptyMap,
     fields |-> EmptyMap,
     valueSchemaBuilder |-> <<>>]

\* a builder on which Build was not called yet
Unbuilt(s) == [s |-> s, built |-> <<>>, builtClone |-> <<>>]

InitBuilder == builder = Unbuilt(NewSchemaBuilder("STRUCT"))

\* the ids of the hypertables and of the chunks
HypertableIds == 1..MaxHypertables
ChunkIds == 1..MaxChunks

\* the mirror before the initial load: no hypertable, no chunk; loaded tells how far the
\* initial load is: "", "hypertables", "chunks"
NewSystemCatalog == [hypertables |-> {}, chunks |-> EmptyMap, loaded |-> ""]

InitCatalog == catalog = NewSystemCatalog

\* the snapshot of a hypertable of rows keyed 1..rows, before its low watermark
NewSnapshot(rows) ==
    [phase |-> "idle", rows |-> rows, pkMin |-> 0, pkMax |-> 0, buffer |-> EmptyMap,
     held |-> <<>>, emitted |-> <<>>, streamed |-> <<>>]

InitSnapshot == snapshot = NewSnapshot(MaxSnapshotRows)

\* the snapshotter before the first start: no snapshot context stored (<<>> is nil)
NewSnapshotter ==
    [encoded |-> <<>>, backend |-> <<>>, running |-> FALSE, current |-> 0,
     loaded |-> {}, thisRun |-> {}, runs |-> 0]

InitSnapshotter == snapshotter = NewSnapshotter

\* the goroutines that call the replication context
Workers == 1..MaxWorkers

\* no goroutine holds lsnMutex, none is inside an operation
NewLsnLock == [holder |-> 0, at |-> [g \in Workers |-> [op |-> "", step |-> ""]]]

InitLsnLock == lsnLock = NewLsnLock

\* what start finds: whether a configuration file is named, whether it opens, reads and
\* decodes, whether postgresql.connection is non-empty, whether the streamer can be
\* created up to the query for the extension, whether the extension is found, and
\* whether the streamer's Start, its Stop and the wait for the shutdown return an error
Environments ==
    [file : BOOLEAN, opens : BOOLEAN, reads : BOOLEAN, decodes : BOOLEAN,
     connection : BOOLEAN, connects : BOOLEAN, extension : BOOLEAN,
     startErr : BOOLEAN, stopErr : BOOLEAN, awaitErr : BOOLEAN]

\* the environment in which every step succeeds
FairWeather ==
    [file |-> TRUE, opens |-> TRUE, reads |-> TRUE, decodes |-> TRUE,
     connection |-> TRUE, connects |-> TRUE, extension |-> TRUE,
     startErr |-> FALSE, stopErr |-> FALSE, awaitErr |-> FALSE]

\* the process when start is entered: nothing checked, no signal sent, the streamer
\* neither created nor started (<<>> is: not exited)
NewProcess(env) ==
    [env |-> env, pc |-> "start", goroutine |-> "", exit |-> <<>>, started |-> FALSE,
     stops |-> 0, sent |-> 0, signals |-> 0, signalled |-> FALSE]

InitProcess == process = NewProcess(FairWeather)

\* a call of GetOrDefault not yet made: postgresql.connection is not set in the
\* environment nor in the file, the default is the empty string (<<>> is: not returned)
NewCall(canonicalProperty, type, environ, element, defaultValue) ==
    [canonicalProperty |-> canonicalProperty, type |-> type, environ |-> environ,
     element |-> element, defaultValue |-> defaultValue, result |-> <<>>]

InitConfiguring == configuring = NewCall(<<"a">>, "string", <<>>, <<>>, "")

\* a range as the INSERT writes it: the brackets, and the bounds (<<>> is: unbounded)
IntRange(lowerInc, lower, upper, upperInc) ==
    [lowerInc |-> lowerInc, lower |-> lower, upper |-> upper, upperInc |-> upperInc]

\* the column before the INSERT (<<>> is: nothing stored, nothing emitted)
NewRangeColumn(value) == [value |-> value, stored |-> <<>>, emitted |-> <<>>]

InitRangeColumn == rangeColumn = NewRangeColumn(IntRange(FALSE, <<10>>, <<20>>, FALSE))

\* the test of a data type before its run: the sink has collected nothing
NewDataTypeTest(testCase) == [testCase |-> testCase, events |-> <<>>]

InitDataTypeTest == dataTypeTest = NewDataTypeTest("boolean")

\* the schema manager of a topic prefix with a hypertable, before a name is asked for
\* (<<>> is: no names computed)
NewSchemaManager(topicPrefix, schemaName, tableName) ==
    [topicPrefix |-> topicPrefix,
     hypertable |-> [schemaName |-> schemaName, tableName |-> tableName],
     names |-> <<>>]

InitNaming == naming = NewSchemaManager(<<"a">>, <<"a">>, <<"a">>)

\* NewSchemaBuilder(schemaType) with the maps as Go holds them: parameters and fields
\* are references into the maps (0 is the nil map), so that two builders can hold the
\* same map; version is the zero value, index -1, defaultValue nil (<<>>)
NewSchemaBuilderImpl(schemaType) ==
    [schemaType |-> schemaType, version |-> 0, defaultValue |-> <<>>, index |-> 0 - 1,
     parameters |-> 0, fields |-> 0]

\* the builder b alone, no map made yet, nothing called (<<>> is: Build not called)
NewSchema(schemaType) ==
    [impl |-> <<NewSchemaBuilderImpl(schemaType)>>, maps |-> <<>>,
     last |-> [op |-> "", target |-> 0], result |-> <<>>, calls |-> 0]

InitSchema == builders = NewSchema("STRUCT")

\* a goroutine that is in no call of SnapshotContextTransaction (<<>> is nil)
NoTransaction ==
    [pc |-> "idle", snapshotName |-> "", createIfNotExists |-> FALSE, hypertable |-> 0,
     fails |-> FALSE, snapshotContext |-> <<>>, err |-> "", before |-> <<>>]

\* the state manager over a state storage that holds no snapshot context: no call of
\* SnapshotContextTransaction was made
NewStateManager ==
    [encoded |-> <<>>, calls |-> [g \in Goroutines |-> NoTransaction], begun |-> 0]

InitStateManager == stateManager = NewStateManager

InitWith(windows) ==
    /\ InitReplication(windows)
    /\ InitResolverFactory
    /\ InitStateSets
    /\ InitRegistry
    /\ InitBuilder
    /\ InitCatalog
    /\ InitSnapshot
    /\ InitSnapshotter
    /\ InitLsnLock
    /\ InitProcess
    /\ InitConfiguring
    /\ InitRangeColumn
    /\ InitDataTypeTest
    /\ InitNaming
    /\ InitSchema
    /\ InitStateManager

\* the replication context on its own runs under the default transaction window
Init == InitWith({[enabled |-> TRUE, maxSize |-> MaxWindowSize]})

(***************************************************************************)
(* Operations of the replication context                                   *)
(***************************************************************************)
\* a new process: NewReplicationContext builds a context with zero LSNs; the
\* state store of the new process holds nothing until it is started
NewReplicationContext ==
    /\ lifecycle \in {"started", "stopped"}
    /\ lifecycle' = "new"
    /\ lastBeginLSN' = 0
    /\ lastCommitLSN' = 0
    /\ lastReceivedLSN' = 0
    /\ lastProcessedLSN' = 0
    /\ lastTransactionId' = 0
    /\ dispatcher' = NewDispatcher
    /\ offsets' = EmptyMap
    /\ lastCall' = Call("NewReplicationContext", "", <<>>)
    /\ UNCHANGED <<replicationSlotName, storage>>

\* rc.dispatcher.StartDispatcher(); return rc.stateManager.start()
StartReplicationContext ==
    /\ lifecycle = "new"
    /\ lifecycle' = "started"
    /\ dispatcher' = StartDispatcher(dispatcher)
    /\ offsets' = StorageLoad
    /\ lastCall' = Call("StartReplicationContext", "", <<>>)
    /\ UNCHANGED <<replicationSlotName, lsnVars, storage>>

\* the state storage's writer flushes the offsets set so far
Save ==
    /\ lifecycle = "started"
    /\ storage # offsets
    /\ storage' = StorageFlush
    /\ lastCall' = Call("Save", "", <<>>)
    /\ UNCHANGED <<lifecycle, replicationSlotName, dispatcher, lsnVars, offsets>>

\* if err := rc.dispatcher.StopDispatcher(); err != nil { return err }
\* return rc.stateManager.stop()
StopReplicationContext(dispatcherErr) ==
    /\ lifecycle = "started"
    /\ IF dispatcherErr
          THEN /\ lastCall' = Call("StopReplicationContext", "dispatcher", <<>>)
               /\ UNCHANGED <<lifecycle, dispatcher, storage>>
          ELSE /\ lifecycle' = "stopped"
               /\ dispatcher' = StopDispatcher(dispatcher)
               /\ storage' = StorageFlush
               /\ lastCall' = Call("StopReplicationContext", "", <<>>)
    /\ UNCHANGED <<replicationSlotName, lsnVars, offsets>>

SetLastTransactionId(xid) ==
    /\ lifecycle = "started"
    /\ lastTransactionId' = xid
    /\ lastCall' = Call("SetLastTransactionId", "", <<>>)
    /\ UNCHANGED <<lifecycle, replicationSlotName, dispatcher, lastBeginLSN, lastCommitLSN,
                   lastReceivedLSN, lastProcessedLSN, offsets, storage>>

SetLastBeginLSN(lsn) ==
    /\ lifecycle = "started"
    /\ lastBeginLSN' = lsn
    /\ lastCall' = Call("SetLastBeginLSN", "", <<>>)
    /\ UNCHANGED <<lifecycle, replicationSlotName, dispatcher, lastCommitLSN, lastReceivedLSN,
                   lastProcessedLSN, lastTransactionId, offsets, storage>>

SetLastCommitLSN(lsn) ==
    /\ lifecycle = "started"
    /\ lastCommitLSN' = lsn
    /\ lastCall' = Call("SetLastCommitLSN", "", <<>>)
    /\ UNCHANGED <<lifecycle, replicationSlotName, dispatcher, lastBeginLSN, lastReceivedLSN,
                   lastProcessedLSN, lastTransactionId, offsets, storage>>

SetPositionLSNs(receivedLSN, processedLSN) ==
    /\ lifecycle = "started"
    /\ lastReceivedLSN' = receivedLSN
    /\ lastProcessedLSN' = processedLSN
    /\ lastCall' = Call("SetPositionLSNs", "", <<>>)
    /\ UNCHANGED <<lifecycle, replicationSlotName, dispatcher, lastBeginLSN, lastCommitLSN,
                   lastTransactionId, offsets, storage>>

\* (a slip that would also move lastProcessed)
AcknowledgeReceivedAndProcessed(xld) ==
    /\ lifecycle = "started"
    /\ lastReceivedLSN' = xld.WALStart + xld.WALDataLen
    /\ lastProcessedLSN' = xld.WALStart + xld.WALDataLen
    /\ lastCall' = Call("AcknowledgeReceived", "", <<>>)
    /\ UNCHANGED <<lifecycle, replicationSlotName, dispatcher, lastBeginLSN, lastCommitLSN,
                   lastTransactionId, offsets, storage>>

AcknowledgeReceived(xld) ==
    /\ lifecycle = "started"
    /\ lastReceivedLSN' = EndLSN(xld)
    /\ lastCall' = Call("AcknowledgeReceived", "", <<>>)
    /\ UNCHANGED <<lifecycle, replicationSlotName, dispatcher, lastBeginLSN, lastCommitLSN,
                   lastProcessedLSN, lastTransactionId, offsets, storage>>

\* failure: "get" when rc.Offset() (the state store's Get) fails, "set" when the state
\* store's Set fails, "" when neither does
AcknowledgeProcessed(xld, processedLSN, failure) ==
    /\ lifecycle = "started"
    /\ LET newLastProcessedLSN ==
               IF Len(processedLSN) > 0 THEN processedLSN[1] ELSE EndLSN(xld)
           lp == Advance(lastProcessedLSN, newLastProcessedLSN)
           present == Len(Offset) > 0
           o == UpdateOffset(IF present THEN Offset[1] ELSE NewOffset, lp, xld)
       IN  /\ lastProcessedLSN' = lp
           /\ IF failure = "get"
                 THEN /\ offsets' = offsets
                      /\ lastCall' = Call("AcknowledgeProcessed", "get", <<>>)
                 ELSE IF failure = "set"
                 \* o is the pointer the store returned: the stored offset is already written
                 THEN /\ offsets' = IF present THEN StorageSet(replicationSlotName, o) ELSE offsets
                      /\ lastCall' = Call("AcknowledgeProcessed", "set",
                                          <<[key |-> replicationSlotName, value |-> o]>>)
                 ELSE /\ offsets' = StorageSet(replicationSlotName, o)
                      /\ lastCall' = Call("AcknowledgeProcessed", "",
                                          <<[key |-> replicationSlotName, value |-> o]>>)
    /\ UNCHANGED <<lifecycle, replicationSlotName, dispatcher, lastBeginLSN, lastCommitLSN,
                   lastReceivedLSN, lastTransactionId, storage>>

Next ==
    \/ NewReplicationContext /\ UNCHANGED <<streamVars, componentVars>>
    \/ StartReplicationContext /\ UNCHANGED <<streamVars, componentVars>>
    \/ Save /\ UNCHANGED <<streamVars, componentVars>>
    \/ \E dispatcherErr \in BOOLEAN :
           StopReplicationContext(dispatcherErr) /\ UNCHANGED <<streamVars, componentVars>>
    \/ \E xid \in SetterArgs : SetLastTransactionId(xid) /\ UNCHANGED <<streamVars, componentVars>>
    \/ \E lsn \in SetterArgs : SetLastBeginLSN(lsn) /\ UNCHANGED <<streamVars, componentVars>>
    \/ \E lsn \in SetterArgs : SetLastCommitLSN(lsn) /\ UNCHANGED <<streamVars, componentVars>>
    \/ \E r \in LSNArgs, p \in LSNArgs : SetPositionLSNs(r, p) /\ UNCHANGED <<streamVars, componentVars>>
    \/ \E xld \in XLogDatas : AcknowledgeReceived(xld) /\ UNCHANGED <<streamVars, componentVars>>
    \/ \E xld \in XLogDatas, p \in OptLSNs, failure \in Failures :
           AcknowledgeProcessed(xld, p, failure) /\ UNCHANGED <<streamVars, componentVars>>

Spec == Init /\ [][Next]_vars

(***************************************************************************)
(* The calls that move the positions lastReceived and lastProcessed, on a  *)
(* replication context whose state store is flushed by its writer and      *)
(* which may be stopped and built anew                                     *)
(***************************************************************************)
NextPosition ==
    \/ NewReplicationContext /\ UNCHANGED <<streamVars, componentVars>>
    \/ StartReplicationContext /\ UNCHANGED <<streamVars, componentVars>>
    \/ Save /\ UNCHANGED <<streamVars, componentVars>>
    \/ \E dispatcherErr \in BOOLEAN :
           StopReplicationContext(dispatcherErr) /\ UNCHANGED <<streamVars, componentVars>>
    \/ \E r \in LSNArgs, p \in LSNArgs : SetPositionLSNs(r, p) /\ UNCHANGED <<streamVars, componentVars>>
    \/ \E xld \in XLogDatas : AcknowledgeReceived(xld) /\ UNCHANGED <<streamVars, componentVars>>
    \/ \E xld \in XLogDatas, p \in OptLSNs, failure \in Failures :
           AcknowledgeProcessed(xld, p, failure) /\ UNCHANGED <<streamVars, componentVars>>

SpecPosition == Init /\ [][NextPosition]_vars

(***************************************************************************)
(* The acknowledgement calls alone: any sequence of AcknowledgeReceived    *)
(* and AcknowledgeProcessed on a replication context, whose state store    *)
(* is flushed by its writer and which may be stopped and built anew        *)
(***************************************************************************)
NextAck ==
    \/ NewReplicationContext /\ UNCHANGED <<streamVars, componentVars>>
    \/ StartReplicationContext /\ UNCHANGED <<streamVars, componentVars>>
    \/ Save /\ UNCHANGED <<streamVars, componentVars>>
    \/ \E dispatcherErr \in BOOLEAN :
           StopReplicationContext(dispatcherErr) /\ UNCHANGED <<streamVars, componentVars>>
    \/ \E xld \in XLogDatas : AcknowledgeReceived(xld) /\ UNCHANGED <<streamVars, componentVars>>
    \/ \E xld \in XLogDatas, p \in OptLSNs, failure \in Failures :
           AcknowledgeProcessed(xld, p, failure) /\ UNCHANGED <<streamVars, componentVars>>

SpecAck == Init /\ [][NextAck]_vars

(***************************************************************************)
(* The acknowledgement calls and the calls that set the other fields of    *)
(* the replication context                                                 *)
(***************************************************************************)
NextFields ==
    \/ NewReplicationContext /\ UNCHANGED <<streamVars, componentVars>>
    \/ StartReplicationContext /\ UNCHANGED <<streamVars, componentVars>>
    \/ StopReplicationContext(FALSE) /\ UNCHANGED <<streamVars, componentVars>>
    \/ \E xid \in SetterArgs : SetLastTransactionId(xid) /\ UNCHANGED <<streamVars, componentVars>>
    \/ \E lsn \in SetterArgs : SetLastBeginLSN(lsn) /\ UNCHANGED <<streamVars, componentVars>>
    \/ \E lsn \in SetterArgs : SetLastCommitLSN(lsn) /\ UNCHANGED <<streamVars, componentVars>>
    \/ \E xld \in XLogDatas : AcknowledgeReceived(xld) /\ UNCHANGED <<streamVars, componentVars>>
    \/ \E xld \in XLogDatas, p \in OptLSNs, failure \in Failures :
           AcknowledgeProcessed(xld, p, failure) /\ UNCHANGED <<streamVars, componentVars>>

SpecFields == Init /\ [][NextFields]_vars

(***************************************************************************)
(* The streaming path: the server's transactions reach the sink through    *)
(* the replication channel, the resolver (plain, or wrapped by the         *)
(* transaction tracker) and the emitter, which acknowledge them on the     *)
(* replication context.                                                    *)
(*                                                                         *)
(* The server decodes whole transactions in commit order. The messages of  *)
(* transaction k are BEGIN (message 0), one INSERT per row (messages       *)
(* 1..rows) and COMMIT (message rows+1); every message has length 1 and    *)
(* starts where the one before it ends. START_REPLICATION at an LSN sends  *)
(* every transaction whose commit is not before that LSN, from its BEGIN.  *)
(***************************************************************************)
\* a transaction of the server: its rows, and paused: the number of events the sink
\* held when the streamer was stopped, for a transaction committed while it was
\* stopped, -1 for one committed while it ran
Transactions == [rows : 1..MaxRows, paused : -1..MaxSink]

TransactionWindows == [enabled : BOOLEAN, maxSize : 0..MaxWindowSize]

RECURSIVE TxnBase(_, _)
\* WALStart of the BEGIN message of transaction k
TxnBase(w, k) == IF k = 1 THEN 1 ELSE TxnBase(w, k - 1) + w[k - 1].rows + 2

\* the LSN of the commit of transaction k (the final LSN its BEGIN message announces)
CommitLSN(w, k) == TxnBase(w, k) + w[k].rows + 1

\* message m of transaction k as the XLogData the channel receives
Message(w, k, m) == [WALStart |-> TxnBase(w, k) + m, WALDataLen |-> 1, ServerTime |-> 1]

\* the transaction the server sends first after START_REPLICATION at startLSN
StartReplication(w, startLSN) ==
    LET later == {k \in 1..Len(w) : CommitLSN(w, k) >= startLSN}
    IN  IF later = {} THEN Len(w) + 1 ELSE CHOOSE k \in later : \A j \in later : k <= j

\* the rows of the transactions k.. of the server as the events they are emitted as
RowEvent(w, k, i) ==
    [xid |-> k, seq |-> i, lsn |-> CommitLSN(w, k), end |-> TxnBase(w, k) + i + 1]

RECURSIVE RowsFrom(_, _)
RowsFrom(w, k) ==
    IF k > Len(w) THEN <<>>
    ELSE [i \in 1..w[k].rows |-> RowEvent(w, k, i)] \o RowsFrom(w, k + 1)

AllRows(w) == RowsFrom(w, 1)

\* if enabled && maxSize > 0 { return newTransactionTracker(...) }
\* return newLogicalReplicationResolver(...)
NewTransactionResolver(enabled, maxSize) ==
    IF enabled /\ maxSize > 0 THEN "transactionTracker" ELSE "logicalReplicationResolver"

Tracking ==
    NewTransactionResolver(transactionWindow.enabled, transactionWindow.maxSize)
        = "transactionTracker"

Streaming == lifecycle = "started" /\ channel.status = "streaming"

\* the channel waits for the server's next transaction and nothing is buffered
CaughtUp == Streaming /\ channel.txn > Len(wal) /\ channel.msg = 0

\* some rows of a transaction are emitted and its COMMIT is not processed yet
PartlyEmitted == uncommitted

RECURSIVE AcknowledgeAll(_, _)
\* lastProcessed after AcknowledgeProcessed was called with each of lsns in turn
AcknowledgeAll(current, lsns) ==
    IF lsns = <<>> THEN current
    ELSE AcknowledgeAll(Advance(current, Head(lsns)), Tail(lsns))

\* the sink manager offers the events to the sink in the order given
Emit(events) == sink \o events

\* the tracker's buffer has reached maxSize rows
WindowFullPast(buffered) == Len(buffered) > transactionWindow.maxSize
WindowFull(buffered) == Len(buffered) >= transactionWindow.maxSize

\* the tracker's flush: the buffered events are emitted in order and the buffer is empty
FlushKeepWindow(events) ==
    /\ sink' = Emit(events)
    /\ drained' = drained + Len(events)
    /\ window' = events
Flush(events) ==
    /\ sink' = Emit(events)
    /\ drained' = drained + Len(events)
    /\ window' = <<>>

\* each emitted event is acknowledged as processed with its LSN of lsns, the last
\* with xld: lastProcessed advances and the slot's offset is set
Processed(lsns, xld) ==
    LET lp == AcknowledgeAll(lastProcessedLSN, lsns)
    IN  /\ lastProcessedLSN' = lp
        /\ offsets' = IF lsns = <<>> THEN offsets
                      ELSE StorageSet(replicationSlotName,
                               UpdateOffset(IF Len(Offset) > 0 THEN Offset[1] ELSE NewOffset,
                                            lp, xld))

\* the server commits a transaction of n rows
ServerCommit(n) ==
    /\ Len(wal) < MaxTxns
    /\ wal' = Append(wal, [rows |-> n,
                           paused |-> IF lifecycle # "started" /\ shutdown # <<>>
                                         THEN shutdown[1].delivered ELSE -1])
    /\ UNCHANGED <<contextVars, transactionWindow, channel, resolverVars, sink, session,
                   uncommitted, interrupted, shutdown>>

\* the channel's first connection of a run: START_REPLICATION at the slot's stored
\* offset, or at 0/0 without one; the context is positioned there
StartReplicationChannel ==
    /\ channel.status = "idle"
    /\ LET restartLSN == IF Len(Offset) > 0 THEN Offset[1].LSN ELSE 0
       IN  /\ SetPositionLSNs(restartLSN, restartLSN)
           /\ channel' = [status |-> "streaming", txn |-> StartReplication(wal, restartLSN),
                          msg |-> 0]
    /\ txnSeq' = 0
    /\ drained' = 0
    /\ window' = <<>>
    /\ session' = Len(sink)
    /\ UNCHANGED <<transactionWindow, wal, sink, uncommitted, interrupted, shutdown>>

\* the server terminates the backend that holds the replication slot
BackendKill ==
    /\ Streaming
    /\ channel' = [channel EXCEPT !.status = "lost"]
    /\ interrupted' = (interrupted \/ PartlyEmitted)
    /\ lastCall' = Call("BackendKill", "", <<>>)
    /\ UNCHANGED <<lifecycle, replicationSlotName, dispatcher, lsnVars, offsets, storage,
                   transactionWindow, wal, resolverVars, sink, session, uncommitted,
                   shutdown>>

\* the channel reconnects at its preserved position: START_REPLICATION at lastProcessed;
\* the transaction that was being received starts over at its BEGIN, what the tracker
\* buffered of it is dropped
ReconnectReplicationChannel ==
    /\ lifecycle = "started"
    /\ channel.status = "lost"
    /\ channel' = [status |-> "streaming", txn |-> StartReplication(wal, lastProcessedLSN),
                   msg |-> 0]
    /\ txnSeq' = 0
    /\ drained' = 0
    /\ window' = <<>>
    /\ session' = Len(sink)
    /\ lastCall' = Call("ReconnectReplicationChannel", "", <<>>)
    /\ UNCHANGED <<lifecycle, replicationSlotName, dispatcher, lsnVars, offsets, storage,
                   transactionWindow, wal, sink, uncommitted, interrupted, shutdown>>

\* BEGIN: the resolver notes the transaction's id and final LSN; the tracker opens a
\* new buffer
OnBeginEvent ==
    /\ Streaming
    /\ channel.txn <= Len(wal)
    /\ channel.msg = 0
    /\ LET xld == Message(wal, channel.txn, 0)
       IN  lastReceivedLSN' = EndLSN(xld)
    /\ lastBeginLSN' = CommitLSN(wal, channel.txn)
    /\ lastTransactionId' = channel.txn
    /\ txnSeq' = 0
    /\ drained' = 0
    /\ window' = <<>>
    /\ channel' = [channel EXCEPT !.msg = 1]
    /\ lastCall' = Call("OnBeginEvent", "", <<>>)
    /\ UNCHANGED <<lifecycle, replicationSlotName, dispatcher, lastCommitLSN, lastProcessedLSN,
                   offsets, storage, transactionWindow, wal, sink, session, uncommitted,
                   interrupted, shutdown>>

\* INSERT: the row becomes an event with source (lsn, txId) and its place in the
\* transaction; the plain resolver emits it, the tracker buffers it and flushes the
\* buffer when it holds maxSize rows; an emitted event is acknowledged as processed
OnInsertEvent ==
    /\ Streaming
    /\ channel.txn <= Len(wal)
    /\ channel.msg \in 1..wal[channel.txn].rows
    /\ LET xld == Message(wal, channel.txn, channel.msg)
           event == [xid |-> lastTransactionId, seq |-> txnSeq + 1, lsn |-> lastBeginLSN,
                     end |-> EndLSN(xld)]
           buffered == Append(window, event)
       IN  /\ lastReceivedLSN' = EndLSN(xld)
           /\ IF ~Tracking
                 THEN /\ Len(sink) < MaxSink
                      /\ Flush(<<event>>)
                      /\ Processed(<<event.end>>, xld)
              ELSE IF WindowFull(buffered)
                 THEN /\ Len(sink) + Len(buffered) <= MaxSink
                      /\ Flush(buffered)
                      /\ Processed([i \in 1..Len(buffered) |-> buffered[i].end], xld)
                 ELSE /\ window' = buffered
                      /\ UNCHANGED <<sink, drained, lastProcessedLSN, offsets>>
    /\ uncommitted' = (uncommitted \/ sink' # sink)
    /\ txnSeq' = txnSeq + 1
    /\ channel' = [channel EXCEPT !.msg = @ + 1]
    /\ lastCall' = Call("OnInsertEvent", "", <<>>)
    /\ UNCHANGED <<lifecycle, replicationSlotName, dispatcher, lastBeginLSN, lastCommitLSN,
                   lastTransactionId, storage, transactionWindow, wal, session, interrupted,
                   shutdown>>

\* the tracker's window exceeds its timeout: the buffered prefix is flushed
FlushWindowTimeout ==
    /\ Streaming
    /\ Tracking
    /\ window # <<>>
    /\ Len(sink) + Len(window) <= MaxSink
    /\ Flush(window)
    /\ Processed([i \in 1..Len(window) |-> window[i].end],
                 Message(wal, channel.txn, channel.msg - 1))
    /\ uncommitted' = TRUE
    /\ lastCall' = Call("FlushWindowTimeout", "", <<>>)
    /\ UNCHANGED <<lifecycle, replicationSlotName, dispatcher, lastBeginLSN, lastCommitLSN,
                   lastReceivedLSN, lastTransactionId, storage, transactionWindow, wal,
                   channel, txnSeq, session, interrupted, shutdown>>

\* COMMIT: the tracker flushes what it still buffers, in order, with the commit's LSN
\* as processed LSN; the COMMIT message itself is acknowledged as processed
OnCommitEvent ==
    /\ Streaming
    /\ channel.txn <= Len(wal)
    /\ channel.msg = wal[channel.txn].rows + 1
    /\ Len(sink) + Len(window) <= MaxSink
    /\ LET xld == Message(wal, channel.txn, channel.msg)
       IN  /\ lastReceivedLSN' = EndLSN(xld)
           /\ Processed([i \in 1..Len(window) |-> CommitLSN(wal, channel.txn)]
                            \o <<EndLSN(xld)>>, xld)
    /\ Flush(window)
    /\ lastCommitLSN' = CommitLSN(wal, channel.txn)
    /\ uncommitted' = FALSE
    /\ channel' = [channel EXCEPT !.txn = @ + 1, !.msg = 0]
    /\ lastCall' = Call("OnCommitEvent", "", <<>>)
    /\ UNCHANGED <<lifecycle, replicationSlotName, dispatcher, lastBeginLSN, lastTransactionId,
                   storage, transactionWindow, wal, txnSeq, session, interrupted, shutdown>>

\* the streamer is paused: the channel closes, what the tracker buffers is dropped, the
\* replication context stops and the state store is flushed
StopStreamer ==
    /\ StopReplicationContext(FALSE)
    /\ channel' = Idle
    /\ txnSeq' = 0
    /\ drained' = 0
    /\ window' = <<>>
    /\ interrupted' = (interrupted \/ PartlyEmitted)
    /\ shutdown' = <<[LSN |-> IF Len(Offset) > 0 THEN <<Offset[1].LSN>> ELSE <<>>,
                      delivered |-> Len(sink),
                      partial |-> PartlyEmitted]>>
    /\ UNCHANGED <<transactionWindow, wal, sink, session, uncommitted>>

\* the streamer is resumed: a new process builds its replication context
ResumeStreamer ==
    /\ lifecycle = "stopped"
    /\ NewReplicationContext
    /\ UNCHANGED streamVars

\* the window disabled (its maxSize then has no effect), or enabled with any maxSize
InitStream == InitWith({tw \in TransactionWindows : tw.enabled \/ tw.maxSize = 0})

NextStream ==
    \/ \E n \in 1..MaxRows : ServerCommit(n) /\ UNCHANGED componentVars
    \/ StartReplicationContext /\ UNCHANGED <<streamVars, componentVars>>
    \/ StartReplicationChannel /\ UNCHANGED componentVars
    \/ BackendKill /\ UNCHANGED componentVars
    \/ ReconnectReplicationChannel /\ UNCHANGED componentVars
    \/ OnBeginEvent /\ UNCHANGED componentVars
    \/ OnInsertEvent /\ UNCHANGED componentVars
    \/ FlushWindowTimeout /\ UNCHANGED componentVars
    \/ OnCommitEvent /\ UNCHANGED componentVars
    \/ StopStreamer /\ UNCHANGED componentVars
    \/ ResumeStreamer /\ UNCHANGED componentVars

SpecStream == InitStream /\ [][NextStream]_vars

(***************************************************************************)
(* Pause and resume: the streamer is stopped and resumed, the backend is   *)
(* never terminated                                                        *)
(***************************************************************************)
NextPause ==
    \/ \E n \in 1..MaxRows : ServerCommit(n) /\ UNCHANGED componentVars
    \/ StartReplicationContext /\ UNCHANGED <<streamVars, componentVars>>
    \/ StartReplicationChannel /\ UNCHANGED componentVars
    \/ OnBeginEvent /\ UNCHANGED componentVars
    \/ OnInsertEvent /\ UNCHANGED componentVars
    \/ FlushWindowTimeout /\ UNCHANGED componentVars
    \/ OnCommitEvent /\ UNCHANGED componentVars
    \/ StopStreamer /\ UNCHANGED componentVars
    \/ ResumeStreamer /\ UNCHANGED componentVars

SpecPause == InitStream /\ [][NextPause]_vars

(***************************************************************************)
(* Backend kill: one run of the streamer, in which the server terminates   *)
(* the backend and the channel reconnects                                  *)
(***************************************************************************)
NextKill ==
    \/ \E n \in 1..MaxRows : ServerCommit(n) /\ UNCHANGED componentVars
    \/ StartReplicationContext /\ UNCHANGED <<streamVars, componentVars>>
    \/ StartReplicationChannel /\ UNCHANGED componentVars
    \/ BackendKill /\ UNCHANGED componentVars
    \/ ReconnectReplicationChannel /\ UNCHANGED componentVars
    \/ OnBeginEvent /\ UNCHANGED componentVars
    \/ OnInsertEvent /\ UNCHANGED componentVars
    \/ FlushWindowTimeout /\ UNCHANGED componentVars
    \/ OnCommitEvent /\ UNCHANGED componentVars

SpecKill == InitStream /\ [][NextKill]_vars

(***************************************************************************)
(* One uninterrupted run under the transaction tracker                     *)
(***************************************************************************)
InitTracker ==
    InitWith({tw \in TransactionWindows :
                NewTransactionResolver(tw.enabled, tw.maxSize) = "transactionTracker"})

NextTracker ==
    \/ \E n \in 1..MaxRows : ServerCommit(n) /\ UNCHANGED componentVars
    \/ StartReplicationContext /\ UNCHANGED <<streamVars, componentVars>>
    \/ StartReplicationChannel /\ UNCHANGED componentVars
    \/ OnBeginEvent /\ UNCHANGED componentVars
    \/ OnInsertEvent /\ UNCHANGED componentVars
    \/ FlushWindowTimeout /\ UNCHANGED componentVars
    \/ OnCommitEvent /\ UNCHANGED componentVars

SpecTracker == InitTracker /\ [][NextTracker]_vars

(***************************************************************************)
(* One uninterrupted run under the transaction tracker in which no window  *)
(* reaches its timeout: the buffer is flushed by size and at commit only   *)
(***************************************************************************)
NextWindow ==
    \/ \E n \in 1..MaxWindowRows : ServerCommit(n) /\ UNCHANGED componentVars
    \/ StartReplicationContext /\ UNCHANGED <<streamVars, componentVars>>
    \/ StartReplicationChannel /\ UNCHANGED componentVars
    \/ OnBeginEvent /\ UNCHANGED componentVars
    \/ OnInsertEvent /\ UNCHANGED componentVars
    \/ OnCommitEvent /\ UNCHANGED componentVars

SpecWindow == InitTracker /\ [][NextWindow]_vars

(***************************************************************************)
(* The resolver factory: NewTransactionResolver reads the transaction      *)
(* window's properties with GetOrDefault and picks the resolver            *)
(***************************************************************************)
\* the properties that findProperty finds by their toml tags in Config
\* (PostgreSQLConfig, SinkConfig, TopicConfig, TimescaleDBConfig)
ConfigProperties ==
    {"postgresql", "postgresql.connection", "postgresql.password", "postgresql.publication",
     "sink", "sink.type", "sink.nats", "sink.kafka", "topic", "topic.namingstrategy",
     "topic.prefix", "timescaledb", "timescaledb.hypertables", "timescaledb.events"}

\* what an environment variable, and what the configuration file, can say of the window:
\* <<>> when it says nothing
Configurations ==
    [envEnabled : {<<>>, <<"true">>, <<"false">>},
     envTimeout : {<<>>, <<"60">>},
     envMaxSize : {<<>>, <<"0">>, <<"1">>},
     fileEnabled : {<<>>, <<TRUE>>, <<FALSE>>},
     fileMaxSize : {<<>>} \cup {<<n>> : n \in 0..MaxWindowSize}]

\* findEnvProperty for a default of a type other than string (bool, uint, time.Duration):
\* reflect converts the variable's string to that type, which panics
FindEnvProperty(env) == IF Len(env) > 0 THEN "panic" ELSE "unset"

\* GetOrDefault: the environment variable first; then the path through the Config struct,
\* the default when a property of the path is no field; the default as well when the
\* field holds the zero value of its type
GetOrDefault(env, canonicalProperty, element, zero, defaultValue) ==
    IF FindEnvProperty(env) = "panic" THEN <<>>
    ELSE IF canonicalProperty \notin ConfigProperties THEN <<defaultValue>>
    ELSE IF Len(element) > 0 /\ element[1] # zero THEN <<element[1]>>
    ELSE <<defaultValue>>

\* uint(10000), the default of postgresql.transaction.window.maxsize
DefaultMaxSize == 10000

\* the call of NewTransactionResolver under configuration c: <<>> of GetOrDefault is a panic
CallNewTransactionResolver ==
    /\ resolverFactory.resolver = ""
    /\ LET c == resolverFactory
           enabled == GetOrDefault(c.envEnabled, "postgresql.transaction.window.enabled",
                                   c.fileEnabled, FALSE, TRUE)
           timeout == GetOrDefault(c.envTimeout, "postgresql.transaction.window.timeout",
                                   <<>>, 0, 60)
           maxSize == GetOrDefault(c.envMaxSize, "postgresql.transaction.window.maxsize",
                                   c.fileMaxSize, 0, DefaultMaxSize)
       IN  resolverFactory' =
               [c EXCEPT !.resolver =
                   IF enabled = <<>> \/ timeout = <<>> \/ maxSize = <<>> THEN "panic"
                   ELSE NewTransactionResolver(enabled[1], maxSize[1])]
    /\ UNCHANGED <<contextVars, streamVars>>

InitFactory ==
    /\ InitReplication({[enabled |-> TRUE, maxSize |-> MaxWindowSize]})
    /\ \E c \in Configurations :
         resolverFactory = [envEnabled |-> c.envEnabled, envTimeout |-> c.envTimeout,
                            envMaxSize |-> c.envMaxSize, fileEnabled |-> c.fileEnabled,
                            fileMaxSize |-> c.fileMaxSize, resolver |-> ""]
    /\ InitStateSets
    /\ InitRegistry
    /\ InitBuilder
    /\ InitCatalog
    /\ InitSnapshot
    /\ InitSnapshotter
    /\ InitLsnLock
    /\ InitProcess
    /\ InitConfiguring
    /\ InitRangeColumn
    /\ InitDataTypeTest
    /\ InitNaming
    /\ InitSchema
    /\ InitStateManager

NextFactory ==
    \/ CallNewTransactionResolver /\ UNCHANGED besideResolverFactory

SpecFactory == InitFactory /\ [][NextFactory]_vars

(***************************************************************************)
(* The task dispatcher of the replication context: a bounded queue with a  *)
(* single consumer                                                         *)
(***************************************************************************)
\* the consumer takes the task that was queued first
NextQueuedLast(d) == Len(d.queue)
NextQueued(d) == 1

\* what a submission to the queue does: Closed once the queue is closed, otherwise the
\* task is queued behind the tasks queued before it; wait: the submitter waits for it
Enqueue(t, wait) ==
    /\ t \notin Submitted(dispatcher)
    /\ IF dispatcher.status = "closed"
          THEN /\ dispatcher' = [dispatcher EXCEPT !.rejected = @ \cup {t}]
               /\ lastCall' = Call(IF wait THEN "EnqueueTaskAndWait" ELSE "EnqueueTask",
                                   "Closed", <<>>)
          ELSE /\ Len(dispatcher.queue) < MaxQueue
               /\ dispatcher' = [dispatcher EXCEPT
                                    !.queue = Append(@, t),
                                    !.accepted = Append(@, t),
                                    !.waiting = IF wait THEN @ \cup {t} ELSE @]
               /\ lastCall' = Call(IF wait THEN "EnqueueTaskAndWait" ELSE "EnqueueTask",
                                   "", <<>>)
    /\ UNCHANGED <<lifecycle, replicationSlotName, lsnVars, offsets, storage>>

\* return rc.dispatcher.EnqueueTask(task)
EnqueueTask(t) == Enqueue(t, FALSE)

\* return rc.dispatcher.EnqueueTaskAndWait(task)
EnqueueTaskAndWait(t) == Enqueue(t, TRUE)

\* return rc.dispatcher.RunTask(task): run inline by a caller that is itself a task of
\* the consumer, past the queue
RunTask(t) ==
    /\ t \notin Submitted(dispatcher)
    /\ dispatcher.status = "running"
    /\ dispatcher.current # <<>>
    /\ dispatcher' = [dispatcher EXCEPT !.inline = Append(@, t)]
    /\ lastCall' = Call("RunTask", "", <<>>)
    /\ UNCHANGED <<lifecycle, replicationSlotName, lsnVars, offsets, storage>>

\* the consumer receives from the queue and starts the task
ConsumeTask ==
    /\ dispatcher.status = "running"
    /\ dispatcher.current = <<>>
    /\ dispatcher.queue # <<>>
    /\ LET i == NextQueued(dispatcher)
       IN  dispatcher' = [dispatcher EXCEPT
                             !.current = <<dispatcher.queue[i]>>,
                             !.queue = [j \in 1..(Len(@) - 1) |->
                                           IF j < i THEN @[j] ELSE @[j + 1]]]
    /\ lastCall' = Call("ConsumeTask", "", <<>>)
    /\ UNCHANGED <<lifecycle, replicationSlotName, lsnVars, offsets, storage>>

\* the task returns: it is executed, and who waited for it goes on
CompleteTask ==
    /\ dispatcher.status = "running"
    /\ dispatcher.current # <<>>
    /\ dispatcher' = [dispatcher EXCEPT
                         !.executed = Append(@, dispatcher.current[1]),
                         !.current = <<>>,
                         !.waiting = @ \ {dispatcher.current[1]}]
    /\ lastCall' = Call("CompleteTask", "", <<>>)
    /\ UNCHANGED <<lifecycle, replicationSlotName, lsnVars, offsets, storage>>

\* StopReplicationContext called on a replication context that is stopped already:
\* StopDispatcher on the closed dispatcher, then the state manager's stop once more
StopReplicationContextAgain ==
    /\ lifecycle = "stopped"
    /\ dispatcher.stops < MaxStops
    /\ dispatcher' = StopDispatcher(dispatcher)
    /\ storage' = StorageFlush
    /\ lastCall' = Call("StopReplicationContext", "", <<>>)
    /\ UNCHANGED <<lifecycle, replicationSlotName, lsnVars, offsets>>

NextDispatcher ==
    \/ NewReplicationContext /\ UNCHANGED <<streamVars, componentVars>>
    \/ StartReplicationContext /\ UNCHANGED <<streamVars, componentVars>>
    \/ \E dispatcherErr \in BOOLEAN :
           StopReplicationContext(dispatcherErr) /\ UNCHANGED <<streamVars, componentVars>>
    \/ StopReplicationContextAgain /\ UNCHANGED <<streamVars, componentVars>>
    \/ \E t \in Tasks : EnqueueTask(t) /\ UNCHANGED <<streamVars, componentVars>>
    \/ \E t \in Tasks : EnqueueTaskAndWait(t) /\ UNCHANGED <<streamVars, componentVars>>
    \/ \E t \in Tasks : RunTask(t) /\ UNCHANGED <<streamVars, componentVars>>
    \/ ConsumeTask /\ UNCHANGED <<streamVars, componentVars>>
    \/ CompleteTask /\ UNCHANGED <<streamVars, componentVars>>

SpecDispatcher == Init /\ [][NextDispatcher]_vars

(***************************************************************************)
(* The state store between Start and Stop: Sets by the state manager and   *)
(* by AcknowledgeProcessed, flushes by the writer and by Stop              *)
(***************************************************************************)
\* sm.stateStorage.Set(key, value)
StateManagerSet(key, value) ==
    /\ lifecycle = "started"
    /\ stateSets[key].made < MaxSets
    /\ offsets' = StorageSet(key, value)
    /\ stateSets' = NoteSet(stateSets, key, value)
    /\ lastCall' = Call("StateManagerSet", "", <<[key |-> key, value |-> value]>>)
    /\ UNCHANGED <<lifecycle, replicationSlotName, dispatcher, lsnVars, storage>>

\* AcknowledgeProcessed, with the Set it makes noted
AcknowledgeProcessedSet(xld, processedLSN) ==
    /\ stateSets[replicationSlotName].made < MaxSets
    /\ AcknowledgeProcessed(xld, processedLSN, "")
    /\ stateSets' = NoteSet(stateSets, lastCall'.set[1].key, lastCall'.set[1].value)

NextStateStore ==
    \/ NewReplicationContext /\ UNCHANGED <<streamVars, componentVars>>
    \/ StartReplicationContext /\ stateSets' = NoSets
           /\ UNCHANGED <<streamVars, besideStateSets>>
    \/ Save /\ UNCHANGED <<streamVars, componentVars>>
    \/ \E dispatcherErr \in BOOLEAN :
           StopReplicationContext(dispatcherErr) /\ UNCHANGED <<streamVars, componentVars>>
    \/ \E key \in Slots, value \in Offsets :
           StateManagerSet(key, value) /\ UNCHANGED <<streamVars, besideStateSets>>
    \/ \E p \in LSNArgs :
           AcknowledgeProcessedSet([WALStart |-> 0, WALDataLen |-> 0, ServerTime |-> 1], <<p>>)
               /\ UNCHANGED <<streamVars, besideStateSets>>

SpecStateStore == Init /\ [][NextStateStore]_vars

(***************************************************************************)
(* The offsets of several slots in the state store, with and without a     *)
(* watermark, and AcknowledgeProcessed with the state store's failures     *)
(***************************************************************************)
\* statestorage.Offset values that carry the optional watermark, stored at time 0
WatermarkedOffsets == [LSN : LSNArgs, Timestamp : {0}, Watermark : {1}]

\* sm.stateStorage.Set(key, value), the Sets not counted
StateManagerSetOffset(key, value) ==
    /\ lifecycle = "started"
    /\ offsets' = StorageSet(key, value)
    /\ lastCall' = Call("StateManagerSet", "", <<[key |-> key, value |-> value]>>)
    /\ UNCHANGED <<lifecycle, replicationSlotName, dispatcher, lsnVars, storage>>

NextOffsets ==
    \/ StartReplicationContext /\ UNCHANGED <<streamVars, componentVars>>
    \/ \E dispatcherErr \in BOOLEAN :
           StopReplicationContext(dispatcherErr) /\ UNCHANGED <<streamVars, componentVars>>
    \/ \E key \in Slots, value \in WatermarkedOffsets :
           StateManagerSetOffset(key, value) /\ UNCHANGED <<streamVars, componentVars>>
    \/ \E xld \in XLogDatas, p \in OptLSNs, failure \in Failures :
           AcknowledgeProcessed(xld, p, failure) /\ UNCHANGED <<streamVars, componentVars>>

SpecOffsets == Init /\ [][NextOffsets]_vars

(***************************************************************************)
(* The schema registry: GetSchemaOrCreate under the registry's reentrant   *)
(* lock, called by several goroutines and from inside running creators     *)
(***************************************************************************)
\* the schemas created so far
Created(r) == r.invocations["source"] + r.invocations["a.Envelope"] + r.invocations["a.Key"]

\* r.mutex.Lock() of the reentrant lock: free, or held by the calling goroutine
CanLock(r, g) == r.owner \in {0, g}

\* GetSchemaOrCreate(schemaName, creator) up to the call of creator: the lock is taken;
\* a registered schema is returned and the lock released; otherwise creator starts,
\* with the lock held
GetSchemaOrCreate(g, schemaName) ==
    /\ registry.calls < MaxCalls
    /\ Len(registry.stacks[g]) < MaxDepth
    /\ CanLock(registry, g)
    /\ IF schemaName \in DOMAIN registry.schemaRegistry
          THEN registry' =
                 [registry EXCEPT
                    !.calls = @ + 1,
                    !.returned[schemaName] = @ \cup {registry.schemaRegistry[schemaName]}]
          ELSE registry' =
                 [registry EXCEPT
                    !.calls = @ + 1,
                    !.owner = g,
                    !.invocations[schemaName] = @ + 1,
                    !.stacks[g] = Append(@, [schemaName |-> schemaName,
                                             schema |-> Created(registry) + 1])]
    /\ UNCHANGED <<contextVars, streamVars>>

\* creator returns: schema := creator(); r.schemaRegistry[schemaName] = schema;
\* return schema, and the deferred Unlock
CreatorReturns(g) ==
    /\ registry.stacks[g] # <<>>
    /\ LET frame == registry.stacks[g][Len(registry.stacks[g])]
           rest == SubSeq(registry.stacks[g], 1, Len(registry.stacks[g]) - 1)
       IN  registry' =
             [registry EXCEPT
                !.schemaRegistry = Put(@, frame.schemaName, frame.schema),
                !.returned[frame.schemaName] = @ \cup {frame.schema},
                !.stacks[g] = rest,
                !.owner = IF rest = <<>> THEN 0 ELSE g]
    /\ UNCHANGED <<contextVars, streamVars>>

NextRegistry ==
    \/ \E g \in Goroutines, schemaName \in SchemaNames :
           GetSchemaOrCreate(g, schemaName) /\ UNCHANGED besideRegistry
    \/ \E g \in Goroutines : CreatorReturns(g) /\ UNCHANGED besideRegistry

SpecRegistry == Init /\ [][NextRegistry]_vars

(***************************************************************************)
(* The schema builder: its setters, Clone and Build                        *)
(***************************************************************************)
\* the values the setters are called with
FieldNameArgs == {"value"}
FieldNames == {"id", "ts"}
SchemaNameArgs == {"a.Value"}
DefaultValues == {"true", "7", "now"}
ParameterKeys == {"length"}
Indexes == 0..MaxIndex

\* the builders handed to Field and to ValueSchema: new builders of a primitive type,
\* required or optional
LeafBuilders ==
    {[NewSchemaBuilder(t) EXCEPT !.optional = o] : t \in {"INT32", "STRING"}, o \in BOOLEAN}

\* Build's parse of the default value: strconv.ParseBool, else ParseInt, else ParseFloat,
\* else the string itself
ParseDefaultValue(defaultValue) ==
    CASE defaultValue \in {"1", "t", "T", "TRUE", "true", "True"} -> TRUE
      [] defaultValue \in {"0", "f", "F", "FALSE", "false", "False"} -> FALSE
      [] defaultValue = "7" -> 7
      [] OTHER -> defaultValue

\* Clone: a new schemaBuilderImpl with every field copied except index, which keeps the
\* zero value of int
Clone(s) ==
    [fieldName |-> s.fieldName,
     schemaName |-> s.schemaName,
     schemaType |-> s.schemaType,
     optional |-> s.optional,
     defaultValue |-> s.defaultValue,
     index |-> 0,
     parameters |-> s.parameters,
     fields |-> s.fields,
     valueSchemaBuilder |-> s.valueSchemaBuilder]

\* the names of the fields in the order of their indexes (supporting.Sort by Index)
SortedFields(fields) ==
    CHOOSE order \in [1..Cardinality(DOMAIN fields) -> DOMAIN fields] :
        \A i, j \in DOMAIN order :
            i < j => fields[order[i]].index < fields[order[j]].index

\* the part of Build below the switch: field name, schema name, index, optional, default
\* value, then the parameters, which overwrite
BuildAttributes(s, schemaStruct) ==
    LET withField == IF s.fieldName # ""
                        THEN Put(schemaStruct, "FieldNameField", s.fieldName)
                        ELSE schemaStruct
        withName == IF s.schemaName # ""
                       THEN Put(withField, "FieldNameName", s.schemaName)
                       ELSE withField
        withIndex == IF s.index > 0 - 1
                        THEN Put(withName, "FieldNameIndex", s.index)
                        ELSE withName
        withOptional == IF s.optional
                           THEN Put(withIndex, "FieldNameOptional", TRUE)
                           ELSE withIndex
        withDefault == IF s.defaultValue # <<>>
                          THEN Put(withOptional, "FieldNameDefault",
                                   ParseDefaultValue(s.defaultValue[1]))
                          ELSE withOptional
    IN  [key \in (DOMAIN withDefault) \cup (DOMAIN s.parameters) |->
            IF key \in DOMAIN s.parameters THEN s.parameters[key] ELSE withDefault[key]]

\* Build of a builder of a primitive type
BuildPrimitive(s) == BuildAttributes(s, [key \in {"FieldNameType"} |-> s.schemaType])

\* Build: the type; for ARRAY the value schema, for STRUCT the schemas of the fields in
\* the order of their indexes; then the attributes
Build(s) ==
    LET schemaStruct == [key \in {"FieldNameType"} |-> s.schemaType]
    IN  CASE s.schemaType = "ARRAY" ->
               BuildAttributes(s, Put(schemaStruct, "FieldNameValueSchema",
                                      BuildPrimitive(s.valueSchemaBuilder[1])))
          [] s.schemaType = "STRUCT" ->
               BuildAttributes(s, Put(schemaStruct, "FieldNameFields",
                   [i \in 1..Cardinality(DOMAIN s.fields) |->
                       BuildPrimitive(s.fields[SortedFields(s.fields)[i]].schemaBuilder)]))
          [] OTHER -> BuildAttributes(s, schemaStruct)

\* a setter: applies while the builder is being set up, before Build
Set(s) ==
    /\ builder.built = <<>>
    /\ builder' = [builder EXCEPT !.s = s]
    /\ UNCHANGED <<contextVars, streamVars>>

SetFieldName(fieldName) == Set([builder.s EXCEPT !.fieldName = fieldName])

SetSchemaName(schemaName) == Set([builder.s EXCEPT !.schemaName = schemaName])

Optional == Set([builder.s EXCEPT !.optional = TRUE])

Required == Set([builder.s EXCEPT !.optional = FALSE])

DefaultValue(defaultValue) == Set([builder.s EXCEPT !.defaultValue = <<defaultValue>>])

Index(index) == Set([builder.s EXCEPT !.index = index])

Parameter(key, value) == Set([builder.s EXCEPT !.parameters = Put(@, key, value)])

\* Field(name, index, schemaBuilder): the field holds a Clone of schemaBuilder with the
\* field's name and index set.  Fields of equal index are built in the iteration order
\* of the map, so the fields here are given different indexes; Build reads the fields
\* of a STRUCT only, so fields are added to a STRUCT builder.
Field(name, index, schemaBuilder) ==
    /\ builder.s.schemaType = "STRUCT"
    /\ \A other \in DOMAIN builder.s.fields :
           other # name => builder.s.fields[other].index # index
    /\ Set([builder.s EXCEPT !.fields =
              Put(@, name,
                  [name |-> name, index |-> index,
                   schemaBuilder |-> [Clone(schemaBuilder) EXCEPT !.fieldName = name,
                                                                  !.index = index]])])

\* ValueSchema(builder): Build reads the value schema of an ARRAY only
ValueSchema(schemaBuilder) ==
    /\ builder.s.schemaType = "ARRAY"
    /\ Set([builder.s EXCEPT !.valueSchemaBuilder = <<schemaBuilder>>])

\* b.Build() and b.Clone().Build() of the builder that was set up; an ARRAY builder
\* without value schema cannot be built (nil dereference)
BuildBoth ==
    /\ builder.built = <<>>
    /\ builder.s.schemaType = "ARRAY" => builder.s.valueSchemaBuilder # <<>>
    /\ builder' = [builder EXCEPT !.built = <<Build(builder.s)>>,
                                  !.builtClone = <<Build(Clone(builder.s))>>]
    /\ UNCHANGED <<contextVars, streamVars>>

InitBuilders ==
    /\ InitReplication({[enabled |-> TRUE, maxSize |-> MaxWindowSize]})
    /\ InitResolverFactory
    /\ InitStateSets
    /\ InitRegistry
    /\ InitCatalog
    /\ InitSnapshot
    /\ InitSnapshotter
    /\ InitLsnLock
    /\ InitProcess
    /\ InitConfiguring
    /\ InitRangeColumn
    /\ InitDataTypeTest
    /\ InitNaming
    /\ InitSchema
    /\ InitStateManager
    /\ \E schemaType \in SchemaTypes : builder = Unbuilt(NewSchemaBuilder(schemaType))

NextBuilder ==
    \/ \E fieldName \in FieldNameArgs : SetFieldName(fieldName) /\ UNCHANGED besideBuilder
    \/ \E schemaName \in SchemaNameArgs :
           SetSchemaName(schemaName) /\ UNCHANGED besideBuilder
    \/ Optional /\ UNCHANGED besideBuilder
    \/ Required /\ UNCHANGED besideBuilder
    \/ \E defaultValue \in DefaultValues :
           DefaultValue(defaultValue) /\ UNCHANGED besideBuilder
    \/ \E index \in Indexes : Index(index) /\ UNCHANGED besideBuilder
    \/ \E key \in ParameterKeys, value \in 0..MaxParameter :
           Parameter(key, value) /\ UNCHANGED besideBuilder
    \/ \E name \in FieldNames, index \in Indexes, schemaBuilder \in LeafBuilders :
           Field(name, index, schemaBuilder) /\ UNCHANGED besideBuilder
    \/ \E schemaBuilder \in LeafBuilders :
           ValueSchema(schemaBuilder) /\ UNCHANGED besideBuilder
    \/ BuildBoth /\ UNCHANGED besideBuilder

SpecBuilder == InitBuilders /\ [][NextBuilder]_vars

(***************************************************************************)
(* The system catalog mirror with the schema registry: the initial load    *)
(* and the hypertable and chunk events                                     *)
(***************************************************************************)
\* HypertableEnvelopeSchemaName: the schema topic name of the hypertable and ".Envelope"
HypertableEnvelopeSchemaName(hypertable) ==
    <<"a.Envelope", "b.Envelope", "c.Envelope", "d.Envelope">>[hypertable]

\* Registry.RegisterSchema: the entry of the name is set, under the lock
RegisterSchema(r, schemaName, schema) ==
    [r EXCEPT !.schemaRegistry = Put(@, schemaName, schema)]

\* the mirror with the hypertable added
RegisterHypertable(c, hypertable) == [c EXCEPT !.hypertables = @ \cup {hypertable}]

\* the mirror without the hypertable, its chunks left in the chunk map
UnregisterHypertableOnly(c, hypertable) == [c EXCEPT !.hypertables = @ \ {hypertable}]

\* the mirror without the hypertable and without the chunks that belong to it
UnregisterHypertable(c, hypertable) ==
    [c EXCEPT !.hypertables = @ \ {hypertable},
              !.chunks = [chunk \in {x \in DOMAIN @ : @[x].hypertableId # hypertable}
                            |-> @[chunk]]]

\* the mirror with the chunk added, when its hypertable is in the mirror
RegisterChunk(c, chunk, hypertable) ==
    IF hypertable \in c.hypertables
       THEN [c EXCEPT !.chunks = Put(@, chunk, [hypertableId |-> hypertable,
                                                dropped |-> FALSE])]
       ELSE c

\* the schemas of the hypertables registered, one after the other
RECURSIVE RegisterSchemas(_, _)
RegisterSchemas(r, hypertables) ==
    IF hypertables = {}
       THEN r
       ELSE LET hypertable == CHOOSE x \in hypertables : TRUE
            IN  RegisterSchemas(
                    RegisterSchema(r, HypertableEnvelopeSchemaName(hypertable), hypertable),
                    hypertables \ {hypertable})

\* the chunks taken into the mirror, one after the other
RECURSIVE RegisterChunks(_, _)
RegisterChunks(c, chunks) ==
    IF DOMAIN chunks = {}
       THEN c
       ELSE LET chunk == CHOOSE x \in DOMAIN chunks : TRUE
            IN  RegisterChunks(RegisterChunk(c, chunk, chunks[chunk]),
                               [x \in (DOMAIN chunks) \ {chunk} |-> chunks[x]])

\* the initial load of the hypertables (discovery): LoadHypertables calls back for
\* every hypertable the side channel reads; the mirror holds each and its schema is
\* registered
LoadHypertables(hypertables) ==
    /\ catalog.loaded = ""
    /\ registry.owner = 0
    /\ catalog' = [catalog EXCEPT !.hypertables = hypertables, !.loaded = "hypertables"]
    /\ registry' = RegisterSchemas(registry, hypertables)
    /\ UNCHANGED <<contextVars, streamVars>>

\* the initial load of the chunks: LoadChunks calls back for every chunk the side
\* channel reads
LoadChunks(chunks) ==
    /\ catalog.loaded = "hypertables"
    /\ catalog' = [RegisterChunks(catalog, chunks) EXCEPT !.loaded = "chunks"]
    /\ UNCHANGED registry
    /\ UNCHANGED <<contextVars, streamVars>>

\* CreateHypertable event: the mirror holds the hypertable and its schema is registered
CreateHypertable(hypertable) ==
    /\ catalog.loaded = "chunks"
    /\ hypertable \notin catalog.hypertables
    /\ registry.owner = 0
    /\ catalog' = RegisterHypertable(catalog, hypertable)
    /\ registry' = RegisterSchema(registry, HypertableEnvelopeSchemaName(hypertable),
                                  hypertable)
    /\ UNCHANGED <<contextVars, streamVars>>

\* DropHypertable event: the hypertable is destroyed, with the chunks it owns; the
\* registry has no operation that removes a schema, so it is left as it is
DropHypertable(hypertable) ==
    /\ catalog.loaded = "chunks"
    /\ hypertable \in catalog.hypertables
    /\ catalog' = UnregisterHypertable(catalog, hypertable)
    /\ UNCHANGED registry
    /\ UNCHANGED <<contextVars, streamVars>>

\* ChunkCreate event: the chunk of a hypertable that is not in the mirror is not taken
ChunkCreate(chunk, hypertable) ==
    /\ catalog.loaded = "chunks"
    /\ chunk \notin DOMAIN catalog.chunks
    /\ catalog' = RegisterChunk(catalog, chunk, hypertable)
    /\ UNCHANGED registry
    /\ UNCHANGED <<contextVars, streamVars>>

\* ChunkDrop event: the chunk becomes dropped and is retained
ChunkDrop(chunk) ==
    /\ catalog.loaded = "chunks"
    /\ chunk \in DOMAIN catalog.chunks
    /\ ~catalog.chunks[chunk].dropped
    /\ catalog' = [catalog EXCEPT !.chunks[chunk].dropped = TRUE]
    /\ UNCHANGED registry
    /\ UNCHANGED <<contextVars, streamVars>>

\* the dropped chunk is removed once the events in flight are drained
RemoveDroppedChunk(chunk) ==
    /\ chunk \in DOMAIN catalog.chunks
    /\ catalog.chunks[chunk].dropped
    /\ catalog' = [catalog EXCEPT !.chunks = [x \in (DOMAIN @) \ {chunk} |-> @[x]]]
    /\ UNCHANGED registry
    /\ UNCHANGED <<contextVars, streamVars>>

\* the chunks the side channel can read: some chunk ids, each with its hypertable
DatabaseChunks ==
    UNION {[ids -> HypertableIds] : ids \in SUBSET ChunkIds}

NextCatalog ==
    \/ \E hypertables \in SUBSET HypertableIds :
           LoadHypertables(hypertables) /\ UNCHANGED besideCatalog
    \/ \E chunks \in DatabaseChunks : LoadChunks(chunks) /\ UNCHANGED besideCatalog
    \/ \E hypertable \in HypertableIds :
           CreateHypertable(hypertable) /\ UNCHANGED besideCatalog
    \/ \E hypertable \in HypertableIds :
           DropHypertable(hypertable) /\ UNCHANGED besideCatalog
    \/ \E chunk \in ChunkIds, hypertable \in HypertableIds :
           ChunkCreate(chunk, hypertable) /\ UNCHANGED besideCatalog
    \/ \E chunk \in ChunkIds : ChunkDrop(chunk) /\ UNCHANGED besideCatalog
    \/ \E chunk \in ChunkIds : RemoveDroppedChunk(chunk) /\ UNCHANGED besideCatalog

SpecCatalog == Init /\ [][NextCatalog]_vars

(***************************************************************************)
(* The snapshot of a hypertable between its low and its high watermark,    *)
(* with the replication stream running                                     *)
(***************************************************************************)
\* the op=r event of a snapshot row
ReadEvent(key, val) == [op |-> "r", key |-> key, val |-> val]

\* the buffered snapshot rows as op=r events, in the order of their keys
RECURSIVE BufferedEvents(_, _)
BufferedEvents(buffer, from) ==
    IF \A key \in DOMAIN buffer : key < from
       THEN <<>>
       ELSE IF from \in DOMAIN buffer
               THEN <<ReadEvent(from, buffer[from])>> \o BufferedEvents(buffer, from + 1)
               ELSE BufferedEvents(buffer, from + 1)

\* a streamed row between the watermarks that is only passed on, whatever its key
WindowStreamedPassing(s, row) == [s EXCEPT !.held = Append(@, row)]

\* a streamed row between the low and the high watermark: within [PKmin, PKmax] it
\* overrides the buffered snapshot row of its key (the streamed value wins); any other
\* row passes unchanged, behind the snapshot rows of the window
WindowStreamed(s, row) ==
    IF row.key >= s.pkMin /\ row.key <= s.pkMax /\ row.key \in DOMAIN s.buffer
       THEN [s EXCEPT !.buffer[row.key] = row.val]
       ELSE [s EXCEPT !.held = Append(@, row)]

\* steps 2a to 2c for the hypertable: the low watermark is seen, the high watermark is
\* max(primaryKey) at the snapshot, FetchHypertableSnapshotBatch delivers the rows,
\* which are buffered
LowWatermark ==
    /\ snapshot.phase = "idle"
    /\ snapshot' = [snapshot EXCEPT !.phase = "window",
                                    !.pkMin = 1,
                                    !.pkMax = snapshot.rows,
                                    !.buffer = [key \in 1..snapshot.rows |-> 0]]
    /\ UNCHANGED <<contextVars, streamVars>>

\* the key of the next inserted row
NextKey(s) == s.rows + Len(SelectSeq(s.streamed, LAMBDA e : e.row.op = "c")) + 1

\* the replication stream delivers a row: the update of a row of the snapshot, or the
\* insert of a new row.  Between the watermarks the window treats it, afterwards it is
\* emitted as it comes.
StreamRow(key) ==
    /\ snapshot.phase \in {"window", "done"}
    /\ Len(snapshot.streamed) < MaxStreamed
    /\ key <= snapshot.rows \/ key = NextKey(snapshot)
    /\ LET row == [op |-> IF key <= snapshot.rows THEN "u" ELSE "c",
                   key |-> key,
                   val |-> Len(snapshot.streamed) + 1]
           noted == [snapshot EXCEPT !.streamed =
                        Append(@, [row |-> row, window |-> snapshot.phase = "window"])]
       IN  snapshot' = IF snapshot.phase = "window"
                          THEN WindowStreamed(noted, row)
                          ELSE [noted EXCEPT !.emitted = Append(@, row)]
    /\ UNCHANGED <<contextVars, streamVars>>

\* step 2d, the high watermark is seen: the buffered rows are emitted as op=r events,
\* then the rows that passed the window
HighWatermark ==
    /\ snapshot.phase = "window"
    /\ snapshot' = [snapshot EXCEPT !.phase = "done",
                                    !.emitted = @ \o BufferedEvents(snapshot.buffer, 1)
                                                  \o snapshot.held,
                                    !.buffer = EmptyMap,
                                    !.held = <<>>]
    /\ UNCHANGED <<contextVars, streamVars>>

InitSnapshots ==
    /\ InitReplication({[enabled |-> TRUE, maxSize |-> MaxWindowSize]})
    /\ InitResolverFactory
    /\ InitStateSets
    /\ InitRegistry
    /\ InitBuilder
    /\ InitCatalog
    /\ InitSnapshotter
    /\ InitLsnLock
    /\ InitProcess
    /\ InitConfiguring
    /\ InitRangeColumn
    /\ InitDataTypeTest
    /\ InitNaming
    /\ InitSchema
    /\ InitStateManager
    /\ \E rows \in 1..MaxSnapshotRows : snapshot = NewSnapshot(rows)

NextSnapshot ==
    \/ LowWatermark /\ UNCHANGED besideSnapshot
    \/ \E key \in 1..(MaxSnapshotRows + MaxStreamed) :
           StreamRow(key) /\ UNCHANGED besideSnapshot
    \/ HighWatermark /\ UNCHANGED besideSnapshot

SpecSnapshot == InitSnapshots /\ [][NextSnapshot]_vars

(***************************************************************************)
(* The snapshotter over the hypertables, with the snapshot context that    *)
(* the state manager stores, across interruption and restart               *)
(***************************************************************************)
\* watermark.NewSnapshotContext(snapshotName): no hypertable complete
NewSnapshotContext(snapshotName) == [snapshotName |-> snapshotName, complete |-> {}]

\* stateManager.SnapshotContext: the stored context decoded, nil when there is none
SnapshotContext(encoded) == encoded

\* stateManager.setSnapshotContext: the context encoded under stateContextName
SetSnapshotContext(snapshotContext) == <<snapshotContext>>

\* stateManager.getOrCreateSnapshotContext: the stored context, or a new one, which is
\* stored; the result is the stored state afterwards
GetOrCreateSnapshotContext(encoded, snapshotName) ==
    IF SnapshotContext(encoded) # <<>>
       THEN encoded
       ELSE SetSnapshotContext(NewSnapshotContext(snapshotName))

\* the transaction that marks a hypertable complete
MarkComplete(snapshotContext, hypertable) ==
    [snapshotContext EXCEPT !.complete = @ \cup {hypertable}]

\* stateManager.SnapshotContextTransaction with the transaction that marks the
\* hypertable complete: the context is retrieved (created when createIfNotExists), nil
\* without createIfNotExists is an error and nothing is stored; the transaction runs on
\* the context, then the context is stored
SnapshotContextTransaction(encoded, snapshotName, createIfNotExists, hypertable) ==
    LET retrieved == IF createIfNotExists
                        THEN GetOrCreateSnapshotContext(encoded, snapshotName)
                        ELSE SnapshotContext(encoded)
    IN  IF retrieved = <<>>
           THEN encoded
           ELSE SetSnapshotContext(MarkComplete(retrieved[1], hypertable))

\* the hypertables the stored context marks complete
Complete(encoded) == IF encoded = <<>> THEN {} ELSE encoded[1].complete

\* the first hypertable of all, in the snapshotter's order
FirstHypertable(encoded) == 1

\* the first hypertable, in the snapshotter's order, that the context does not mark
\* complete; 0 when every hypertable is complete
NextHypertable(encoded) ==
    IF HypertableIds \subseteq Complete(encoded)
       THEN 0
       ELSE CHOOSE hypertable \in HypertableIds \ Complete(encoded) :
                \A other \in HypertableIds \ Complete(encoded) : hypertable <= other

\* the streamer starts: the state manager loads what the back-end holds, and the
\* snapshotter gets or creates the snapshot context
StartSnapshotter ==
    /\ ~snapshotter.running
    /\ snapshotter.runs < MaxRuns
    /\ snapshotter' =
         [snapshotter EXCEPT !.running = TRUE,
                             !.runs = @ + 1,
                             !.encoded = GetOrCreateSnapshotContext(snapshotter.backend,
                                                                    "snapshot"),
                             !.loaded = Complete(snapshotter.backend),
                             !.thisRun = {},
                             !.current = 0]
    /\ UNCHANGED <<contextVars, streamVars>>

\* the snapshotter takes up the next hypertable
SnapshotHypertable ==
    /\ snapshotter.running
    /\ snapshotter.current = 0
    /\ NextHypertable(snapshotter.encoded) # 0
    /\ snapshotter' = [snapshotter EXCEPT !.current = NextHypertable(snapshotter.encoded)]
    /\ UNCHANGED <<contextVars, streamVars>>

\* the snapshot of the hypertable completes: the context is stored with the hypertable
\* marked complete
CompleteHypertable ==
    /\ snapshotter.running
    /\ snapshotter.current # 0
    /\ snapshotter' =
         [snapshotter EXCEPT !.encoded = SnapshotContextTransaction(
                                             snapshotter.encoded, "snapshot", FALSE,
                                             snapshotter.current),
                             !.thisRun = @ \cup {snapshotter.current},
                             !.current = 0]
    /\ UNCHANGED <<contextVars, streamVars>>

\* the state store's writer flushes the encoded state to the back-end
FlushSnapshotContext ==
    /\ snapshotter.running
    /\ snapshotter.backend # snapshotter.encoded
    /\ snapshotter' = [snapshotter EXCEPT !.backend = snapshotter.encoded]
    /\ UNCHANGED <<contextVars, streamVars>>

\* the streamer is stopped while the snapshot runs: Stop flushes
StopSnapshotter ==
    /\ snapshotter.running
    /\ snapshotter' = [snapshotter EXCEPT !.running = FALSE,
                                          !.current = 0,
                                          !.backend = snapshotter.encoded]
    /\ UNCHANGED <<contextVars, streamVars>>

\* the process ends without Stop: what was not flushed is lost
KillSnapshotter ==
    /\ snapshotter.running
    /\ snapshotter' = [snapshotter EXCEPT !.running = FALSE,
                                          !.current = 0,
                                          !.encoded = snapshotter.backend]
    /\ UNCHANGED <<contextVars, streamVars>>

NextSnapshotter ==
    \/ StartSnapshotter /\ UNCHANGED besideSnapshotter
    \/ SnapshotHypertable /\ UNCHANGED besideSnapshotter
    \/ CompleteHypertable /\ UNCHANGED besideSnapshotter
    \/ FlushSnapshotContext /\ UNCHANGED besideSnapshotter
    \/ StopSnapshotter /\ UNCHANGED besideSnapshotter
    \/ KillSnapshotter /\ UNCHANGED besideSnapshotter

SpecSnapshotter == Init /\ [][NextSnapshotter]_vars

(***************************************************************************)
(* The operations of the replication context step by step, with lsnMutex   *)
(***************************************************************************)
\* the goroutine is at the step of the operation
At(l, g, op, step) == [l EXCEPT !.at[g] = [op |-> op, step |-> step]]

\* the operation of the goroutine returned
Returned(l, g) == [l EXCEPT !.at[g] = [op |-> "", step |-> ""]]

\* rc.lsnMutex.Lock() and the deferred rc.lsnMutex.Unlock()
LsnMutexLock(l, g) == [l EXCEPT !.holder = g]
LsnMutexUnlock(l, g) == [l EXCEPT !.holder = 0]

\* an operation that takes lsnMutex for its whole run
WithLsnMutex(l, g) == [l EXCEPT !.holder = g]

\* an operation that does not touch lsnMutex
WithoutLsnMutex(l, g) == l

\* the goroutine is in no operation
InNoOperation(g) == lsnLock.at[g].op = ""

\* AcknowledgeReceived and the getters and setters of the LSN fields: Lock, the field
\* is read or written
LockLSNField(g) ==
    /\ InNoOperation(g)
    /\ lsnLock.holder = 0
    /\ lsnLock' = At(LsnMutexLock(lsnLock, g), g, "AcknowledgeReceived", "field")
    /\ UNCHANGED <<contextVars, streamVars>>

\* ... and the deferred Unlock
ReturnLSNField(g) ==
    /\ lsnLock.at[g] = [op |-> "AcknowledgeReceived", step |-> "field"]
    /\ lsnLock' = Returned(LsnMutexUnlock(lsnLock, g), g)
    /\ UNCHANGED <<contextVars, streamVars>>

\* AcknowledgeProcessed: Lock, lastProcessedLSN is advanced
LockAcknowledgeProcessed(g) ==
    /\ InNoOperation(g)
    /\ lsnLock.holder = 0
    /\ lsnLock' = At(LsnMutexLock(lsnLock, g), g, "AcknowledgeProcessed", "field")
    /\ UNCHANGED <<contextVars, streamVars>>

\* AcknowledgeProcessed: o, err := rc.Offset(), the read of the state store
ReadOffset(g) ==
    /\ lsnLock.at[g] = [op |-> "AcknowledgeProcessed", step |-> "field"]
    /\ lsnLock' = At(lsnLock, g, "AcknowledgeProcessed", "Get")
    /\ UNCHANGED <<contextVars, streamVars>>

\* AcknowledgeProcessed: rc.stateStorageManager.Set(rc.replicationSlotName, o)
PersistOffset(g) ==
    /\ lsnLock.at[g] = [op |-> "AcknowledgeProcessed", step |-> "Get"]
    /\ lsnLock' = At(lsnLock, g, "AcknowledgeProcessed", "Set")
    /\ UNCHANGED <<contextVars, streamVars>>

\* AcknowledgeProcessed returns, and the deferred Unlock
ReturnAcknowledgeProcessed(g) ==
    /\ lsnLock.at[g] = [op |-> "AcknowledgeProcessed", step |-> "Set"]
    /\ lsnLock' = Returned(LsnMutexUnlock(lsnLock, g), g)
    /\ UNCHANGED <<contextVars, streamVars>>

\* StopReplicationContext: StopDispatcher, then the state storage's Stop, which flushes
FlushOnStop(g) ==
    /\ InNoOperation(g)
    /\ lsnLock' = At(WithoutLsnMutex(lsnLock, g), g, "StopReplicationContext", "flush")
    /\ UNCHANGED <<contextVars, streamVars>>

\* an operation that hands over to the side channel (LoadHypertables, LoadChunks,
\* ReadHypertableSchema, ...): a query on the side channel's connection
QuerySideChannel(g) ==
    /\ InNoOperation(g)
    /\ lsnLock' = At(WithoutLsnMutex(lsnLock, g), g, "LoadHypertables", "network")
    /\ UNCHANGED <<contextVars, streamVars>>

\* StopReplicationContext or the side-channel operation returns
ReturnWithoutLsnMutex(g) ==
    /\ lsnLock.at[g].step \in {"flush", "network"}
    /\ lsnLock' = Returned(lsnLock, g)
    /\ UNCHANGED <<contextVars, streamVars>>

NextLsnLock ==
    \/ \E g \in Workers : LockLSNField(g) /\ UNCHANGED besideLsnLock
    \/ \E g \in Workers : ReturnLSNField(g) /\ UNCHANGED besideLsnLock
    \/ \E g \in Workers : LockAcknowledgeProcessed(g) /\ UNCHANGED besideLsnLock
    \/ \E g \in Workers : ReadOffset(g) /\ UNCHANGED besideLsnLock
    \/ \E g \in Workers : PersistOffset(g) /\ UNCHANGED besideLsnLock
    \/ \E g \in Workers : ReturnAcknowledgeProcessed(g) /\ UNCHANGED besideLsnLock
    \/ \E g \in Workers : FlushOnStop(g) /\ UNCHANGED besideLsnLock
    \/ \E g \in Workers : QuerySideChannel(g) /\ UNCHANGED besideLsnLock
    \/ \E g \in Workers : ReturnWithoutLsnMutex(g) /\ UNCHANGED besideLsnLock

SpecLsnLock == Init /\ [][NextLsnLock]_vars

(***************************************************************************)
(* The process: start with its checks, the signal goroutine, the exit code *)
(***************************************************************************)
\* the exit codes of start and of NewReplicationContext
ExitConfigOpen == 3
ExitConfigRead == 4
ExitConfigDecode == 5
ExitConnectionRequired == 6
ExitExtensionNotFound == 17
ExitRuntime == 10
\* os.Exit(1) of the signal goroutine, and log.Fatal of main for an error without code
ExitHardError == 1
ExitFatal == 1

\* the checks of start with the connection check first
StartupExitConnectionFirst(env) ==
    IF ~env.connection
       THEN <<ExitConnectionRequired>>
       ELSE IF env.file /\ ~env.opens
               THEN <<ExitConfigOpen>>
               ELSE IF env.file /\ ~env.reads
                       THEN <<ExitConfigRead>>
                       ELSE IF env.file /\ ~env.decodes
                               THEN <<ExitConfigDecode>>
                               ELSE IF ~env.connects
                                       THEN <<ExitFatal>>
                                       ELSE IF ~env.extension
                                               THEN <<ExitExtensionNotFound>>
                                               ELSE <<>>

\* start up to NewStreamer: with a configuration file named, it is opened, read and
\* decoded; postgresql.connection must be non-empty; NewStreamer creates the replication
\* context, whose errors before the query for the extension carry no exit code, and
\* which requires the TimescaleDB extension.  <<>> when the streamer is created.
StartupExit(env) ==
    IF env.file /\ ~env.opens
       THEN <<ExitConfigOpen>>
       ELSE IF env.file /\ ~env.reads
               THEN <<ExitConfigRead>>
               ELSE IF env.file /\ ~env.decodes
                       THEN <<ExitConfigDecode>>
                       ELSE IF ~env.connection
                               THEN <<ExitConnectionRequired>>
                               ELSE IF ~env.connects
                                       THEN <<ExitFatal>>
                                       ELSE IF ~env.extension
                                               THEN <<ExitExtensionNotFound>>
                                               ELSE <<>>

\* the process ended with the code
Exited(p, code) == [p EXCEPT !.pc = "exited", !.goroutine = "", !.exit = <<code>>]

\* start from its first statement to signal.Notify and the launch of the goroutine
StartupChecks ==
    /\ process.pc = "start"
    /\ process' = IF StartupExit(process.env) # <<>>
                     THEN Exited(process, StartupExit(process.env)[1])
                     ELSE [process EXCEPT !.pc = "created", !.goroutine = "receive"]
    /\ UNCHANGED <<contextVars, streamVars>>

\* streamer.Start(): an error is returned by start and ends the process
StreamerStart ==
    /\ process.pc = "created"
    /\ process' = IF process.env.startErr
                     THEN [Exited(process, ExitFatal) EXCEPT !.started = TRUE]
                     ELSE [process EXCEPT !.pc = "await", !.started = TRUE]
    /\ UNCHANGED <<contextVars, streamVars>>

\* SIGINT, SIGTERM or SIGQUIT is sent to the process after signal.Notify: it is put into
\* the channel of capacity 1, or dropped when the channel is full
SendSignal(sig) ==
    /\ process.pc \in {"created", "await"}
    /\ process.sent < MaxSignals
    /\ process' = [process EXCEPT !.sent = @ + 1,
                                  !.signals = IF @ = 0 THEN 1 ELSE @]
    /\ UNCHANGED <<contextVars, streamVars>>

\* a goroutine that receives from the channel in a loop and calls streamer.Stop() for
\* every signal
ReceiveSignalInLoop ==
    /\ process.goroutine = "receive"
    /\ process.signals > 0
    /\ process' = [process EXCEPT !.signals = @ - 1,
                                  !.stops = @ + 1]
    /\ UNCHANGED <<contextVars, streamVars>>

\* the goroutine receives from the channel and calls streamer.Stop()
ReceiveSignal ==
    /\ process.goroutine = "receive"
    /\ process.signals > 0
    /\ process' = [process EXCEPT !.signals = @ - 1,
                                  !.goroutine = "stop",
                                  !.stops = @ + 1]
    /\ UNCHANGED <<contextVars, streamVars>>

\* the exit code of the goroutine when Stop returned an error, were it the runtime code
StopErrorExitRuntime == ExitRuntime

\* the exit code of the goroutine when Stop returned an error: os.Exit(1)
StopErrorExit == ExitHardError

\* streamer.Stop() returns to the goroutine: on an error the process exits, otherwise
\* done.Signal() and the goroutine ends
StopReturns ==
    /\ process.goroutine = "stop"
    /\ process' = IF process.env.stopErr
                     THEN Exited(process, StopErrorExit)
                     ELSE [process EXCEPT !.goroutine = "", !.signalled = TRUE]
    /\ UNCHANGED <<contextVars, streamVars>>

\* done.Await() returns nil after done.Signal(): start returns nil, the process ends
AwaitReturns ==
    /\ process.pc = "await"
    /\ process.signalled
    /\ process' = Exited(process, 0)
    /\ UNCHANGED <<contextVars, streamVars>>

\* done.Await() returns an error: start returns it adapted to the runtime exit code
AwaitFails ==
    /\ process.pc = "await"
    /\ process.env.awaitErr
    /\ ~process.signalled
    /\ process' = Exited(process, ExitRuntime)
    /\ UNCHANGED <<contextVars, streamVars>>

InitProcesses ==
    /\ InitReplication({[enabled |-> TRUE, maxSize |-> MaxWindowSize]})
    /\ InitResolverFactory
    /\ InitStateSets
    /\ InitRegistry
    /\ InitBuilder
    /\ InitCatalog
    /\ InitSnapshot
    /\ InitSnapshotter
    /\ InitLsnLock
    /\ InitConfiguring
    /\ InitRangeColumn
    /\ InitDataTypeTest
    /\ InitNaming
    /\ InitSchema
    /\ InitStateManager
    /\ \E env \in Environments : process = NewProcess(env)

Signals == {"SIGINT", "SIGTERM", "SIGQUIT"}

NextProcess ==
    \/ StartupChecks /\ UNCHANGED besideProcess
    \/ StreamerStart /\ UNCHANGED besideProcess
    \/ \E sig \in Signals : SendSignal(sig) /\ UNCHANGED besideProcess
    \/ ReceiveSignal /\ UNCHANGED besideProcess
    \/ StopReturns /\ UNCHANGED besideProcess
    \/ AwaitReturns /\ UNCHANGED besideProcess
    \/ AwaitFails /\ UNCHANGED besideProcess

SpecProcess == InitProcesses /\ [][NextProcess]_vars

\* the process with the waiter start creates: NewWaiter() has no timeout, its Await
\* returns when the goroutine has signalled
NextShutdown ==
    \/ StartupChecks /\ UNCHANGED besideProcess
    \/ StreamerStart /\ UNCHANGED besideProcess
    \/ \E sig \in Signals : SendSignal(sig) /\ UNCHANGED besideProcess
    \/ ReceiveSignal /\ UNCHANGED besideProcess
    \/ StopReturns /\ UNCHANGED besideProcess
    \/ AwaitReturns /\ UNCHANGED besideProcess

\* the Go scheduler runs a goroutine that can proceed: the signal goroutine receives
\* from a non-empty channel, and start returns from Await once done is signalled
SpecShutdown ==
    /\ InitProcesses
    /\ [][NextShutdown]_vars
    /\ WF_vars(ReceiveSignal /\ UNCHANGED besideProcess)
    /\ WF_vars(AwaitReturns /\ UNCHANGED besideProcess)

(***************************************************************************)
(* GetOrDefault: the environment variable of a property, the file's value  *)
(***************************************************************************)
\* strings are sequences of characters; the characters of a property key are letters
\* (one stands for all), the underscore and the dot
KeyCharacters == {"a", "_", "."}

\* strings.ToUpper
RECURSIVE ToUpper(_)
ToUpper(str) ==
    IF str = <<>> THEN <<>>
    ELSE <<IF Head(str) = "a" THEN "A" ELSE Head(str)>> \o ToUpper(Tail(str))

\* strings.ReplaceAll for an old string of one character
RECURSIVE ReplaceAll(_, _, _)
ReplaceAll(str, old, new) ==
    IF str = <<>> THEN <<>>
    ELSE (IF Head(str) = old THEN new ELSE <<Head(str)>>) \o ReplaceAll(Tail(str), old, new)

\* the name with the dots replaced before the underscores are doubled
EnvVarNameDotsFirst(canonicalProperty) ==
    ReplaceAll(ReplaceAll(ToUpper(canonicalProperty), ".", <<"_">>), "_", <<"_", "_">>)

\* findEnvProperty: the name of the environment variable of a property
EnvVarName(canonicalProperty) ==
    ReplaceAll(ReplaceAll(ToUpper(canonicalProperty), "_", <<"_", "_">>), ".", <<"_">>)

\* os.LookupEnv in an environment of at most one variable: <<>> when it is not set
LookupEnv(environ, name) ==
    IF environ # <<>> /\ environ[1].name = name THEN <<environ[1].value>> ELSE <<>>

\* the zero value of a type
Zero(type) == IF type = "string" THEN "" ELSE FALSE

\* findEnvProperty: reflect converts the variable's string to the type of the default,
\* which panics for every type that is no string type; a zero value is not returned
FindEnvPropertyTyped(environ, canonicalProperty, type) ==
    LET val == LookupEnv(environ, EnvVarName(canonicalProperty))
    IN  IF val = <<>> THEN <<"unset">>
        ELSE IF type # "string" THEN <<"panic">>
        ELSE IF val[1] # Zero(type) THEN <<"returns", val[1]>>
        ELSE <<"unset">>

\* GetOrDefault: the environment variable first; then the path through the Config
\* struct (element is <<>> when a property of the path is no field), whose value is
\* returned unless it is the zero value of its type; the default otherwise
GetOrDefaultTyped(environ, canonicalProperty, type, element, defaultValue) ==
    LET env == FindEnvPropertyTyped(environ, canonicalProperty, type)
    IN  IF env[1] # "unset" THEN env
        ELSE IF element = <<>> THEN <<"returns", defaultValue>>
        ELSE IF element[1] # Zero(type) THEN <<"returns", element[1]>>
        ELSE <<"returns", defaultValue>>

\* one call of GetOrDefault
CallGetOrDefault ==
    /\ configuring.result = <<>>
    /\ configuring' =
         [configuring EXCEPT !.result =
             GetOrDefaultTyped(configuring.environ, configuring.canonicalProperty,
                               configuring.type, configuring.element,
                               configuring.defaultValue)]
    /\ UNCHANGED <<contextVars, streamVars>>

\* property keys: they begin with a letter
RECURSIVE Strings(_, _)
Strings(characters, n) ==
    IF n = 0 THEN {<<>>}
    ELSE LET shorter == Strings(characters, n - 1)
         IN  shorter \cup {str \o <<c>> : str \in shorter, c \in characters}

PropertyKeys == {<<"a">> \o str : str \in Strings(KeyCharacters, MaxKeyLen - 1)}

\* the names an environment variable has beside a property: the one findEnvProperty
\* looks up, and the ones a different rule would give
EnvVarNames(canonicalProperty) ==
    {EnvVarName(canonicalProperty), EnvVarNameDotsFirst(canonicalProperty),
     ToUpper(canonicalProperty), ReplaceAll(ToUpper(canonicalProperty), ".", <<"_">>)}

\* the values of a type: of a string property the empty and one non-empty string
Values(type) == IF type = "string" THEN {"", "value"} ELSE BOOLEAN

\* what a file and a default can hold, and what an environment variable can be set to
InitCalls ==
    /\ InitReplication({[enabled |-> TRUE, maxSize |-> MaxWindowSize]})
    /\ InitResolverFactory
    /\ InitStateSets
    /\ InitRegistry
    /\ InitBuilder
    /\ InitCatalog
    /\ InitSnapshot
    /\ InitSnapshotter
    /\ InitLsnLock
    /\ InitProcess
    /\ InitRangeColumn
    /\ InitDataTypeTest
    /\ InitNaming
    /\ InitSchema
    /\ InitStateManager
    /\ \E canonicalProperty \in PropertyKeys, type \in {"string", "bool"} :
         \E environ \in {<<>>} \cup
                        {<<[name |-> name, value |-> value]>> :
                            name \in EnvVarNames(canonicalProperty),
                            value \in IF type = "string" THEN {"", "env"}
                                                         ELSE {"", "true", "false"}},
            element \in {<<>>} \cup {<<v>> : v \in Values(type)},
            defaultValue \in Values(type) :
              configuring = NewCall(canonicalProperty, type, environ, element, defaultValue)

NextConfiguring ==
    \/ CallGetOrDefault /\ UNCHANGED besideConfiguring

SpecConfiguring == InitCalls /\ [][NextConfiguring]_vars

(***************************************************************************)
(* Integer ranges: the value of the INSERT, the stored range, the emitted  *)
(* string                                                                  *)
(***************************************************************************)
\* the values of int4range and int8range in the data type table: '(10,20)', '(10,20]',
\* '(,20)', '(10,)', and what the test expects the streamer to emit for them
RangeTests ==
    {[value |-> IntRange(FALSE, <<10>>, <<20>>, FALSE), expected |-> <<"[", "11", ",", "20", ")">>],
     [value |-> IntRange(FALSE, <<10>>, <<20>>, TRUE), expected |-> <<"[", "11", ",", "21", ")">>],
     [value |-> IntRange(FALSE, <<>>, <<20>>, FALSE), expected |-> <<"(", ",", "20", ")">>],
     [value |-> IntRange(FALSE, <<10>>, <<>>, FALSE), expected |-> <<"[", "11", ",", ")">>]}

\* the range the database stores, with the bounds of the value kept as they were written
StoredAsWritten(value) == <<[empty |-> FALSE, range |-> value]>>

\* the range the database stores for a value of a discrete range type: an unbounded side
\* is exclusive, a finite lower bound is made inclusive and a finite upper bound
\* exclusive; a range without elements is stored as empty.  <<>> when the database
\* rejects the value: its lower bound above its upper bound, or a bound out of the
\* integer type.
Stored(value) ==
    LET lower == IF value.lower = <<>> THEN <<>>
                 ELSE IF value.lowerInc THEN value.lower ELSE <<value.lower[1] + 1>>
        upper == IF value.upper = <<>> THEN <<>>
                 ELSE IF value.upperInc THEN <<value.upper[1] + 1>> ELSE value.upper
    IN  IF value.lower # <<>> /\ value.upper # <<>> /\ value.lower[1] > value.upper[1]
           THEN <<>>
        ELSE IF lower # <<>> /\ upper # <<>> /\ lower[1] >= upper[1]
           THEN <<[empty |-> TRUE, range |-> IntRange(FALSE, <<>>, <<>>, FALSE)]>>
        ELSE IF (lower # <<>> /\ lower[1] > MaxRangeValue)
                \/ (upper # <<>> /\ upper[1] > MaxRangeValue)
           THEN <<>>
        ELSE <<[empty |-> FALSE, range |-> IntRange(lower # <<>>, lower, upper, FALSE)]>>

\* the decimal digits of a bound; nothing for an unbounded side
BoundString(bound) == IF bound = <<>> THEN <<>> ELSE <<ToString(bound[1])>>

\* the string of a stored range, character group by character group
RangeString(stored) ==
    IF stored.empty THEN <<"empty">>
    ELSE <<IF stored.range.lowerInc THEN "[" ELSE "(">> \o BoundString(stored.range.lower)
         \o <<",">> \o BoundString(stored.range.upper)
         \o <<IF stored.range.upperInc THEN "]" ELSE ")">>

\* INSERT of the value: the database stores the range or rejects the statement
InsertRange ==
    /\ rangeColumn.stored = <<>>
    /\ Stored(rangeColumn.value) # <<>>
    /\ rangeColumn' = [rangeColumn EXCEPT !.stored = Stored(rangeColumn.value)]
    /\ UNCHANGED <<contextVars, streamVars>>

\* the streamer decodes the stored range of the replication message and emits its string
EmitRange ==
    /\ rangeColumn.stored # <<>>
    /\ rangeColumn.emitted = <<>>
    /\ rangeColumn' = [rangeColumn EXCEPT !.emitted = RangeString(rangeColumn.stored[1])]
    /\ UNCHANGED <<contextVars, streamVars>>

\* the bounds a value can have
RangeBounds == {<<>>} \cup {<<n>> : n \in 0..MaxRangeValue}

InitRanges ==
    /\ InitReplication({[enabled |-> TRUE, maxSize |-> MaxWindowSize]})
    /\ InitResolverFactory
    /\ InitStateSets
    /\ InitRegistry
    /\ InitBuilder
    /\ InitCatalog
    /\ InitSnapshot
    /\ InitSnapshotter
    /\ InitLsnLock
    /\ InitProcess
    /\ InitConfiguring
    /\ InitDataTypeTest
    /\ InitNaming
    /\ InitSchema
    /\ InitStateManager
    /\ \E lowerInc \in BOOLEAN, lower \in RangeBounds,
          upper \in RangeBounds, upperInc \in BOOLEAN :
         rangeColumn = NewRangeColumn(IntRange(lowerInc, lower, upper, upperInc))

NextRanges ==
    \/ InsertRange /\ UNCHANGED besideRangeColumn
    \/ EmitRange /\ UNCHANGED besideRangeColumn

SpecRanges == InitRanges /\ [][NextRanges]_vars

(***************************************************************************)
(* The data type test: single-row INSERTs into a hypertable (ts, val) and  *)
(* the envelopes the sink collects                                         *)
(***************************************************************************)
\* a column value with the kind of Go value that holds it
Value(kind, v) == [kind |-> kind, v |-> v]

\* test cases of the data type table: the type of the column, the schema type the test
\* expects, the inserted value and the value the test expects in payload.after
DataTypeTable ==
    [boolean   |-> [pgTypeName |-> "boolean", schemaType |-> "BOOLEAN",
                    value |-> Value("bool", TRUE), expected |-> Value("bool", TRUE)],
     int4      |-> [pgTypeName |-> "int4", schemaType |-> "INT32",
                    value |-> Value("int32", 32), expected |-> Value("int32", 32)],
     bytea     |-> [pgTypeName |-> "bytea", schemaType |-> "STRING",
                    value |-> Value("bytes", <<222, 173, 190, 239>>),
                    expected |-> Value("string", <<"d", "e", "a", "d", "b", "e", "e", "f">>)],
     date      |-> [pgTypeName |-> "date", schemaType |-> "INT32",
                    value |-> Value("date", <<2023, 1, 1>>),
                    expected |-> Value("int32", 19358)],
     int4range |-> [pgTypeName |-> "int4range", schemaType |-> "STRING",
                    value |-> Value("range", IntRange(FALSE, <<10>>, <<20>>, FALSE)),
                    expected |-> Value("string", <<"[", "11", ",", "20", ")">>)]]

TestCases == DOMAIN DataTypeTable

\* the two digits of a byte in lower-case hexadecimal
HexDigits == <<"0", "1", "2", "3", "4", "5", "6", "7", "8", "9", "a", "b", "c", "d", "e", "f">>
HexByte(b) == <<HexDigits[(b \div 16) + 1], HexDigits[(b % 16) + 1]>>

RECURSIVE Hex(_)
Hex(bytes) == IF bytes = <<>> THEN <<>> ELSE HexByte(Head(bytes)) \o Hex(Tail(bytes))

LeapYear(y) == y % 4 = 0 /\ (y % 100 # 0 \/ y % 400 = 0)
DaysOfMonth(y, m) ==
    IF m = 2 THEN (IF LeapYear(y) THEN 29 ELSE 28)
    ELSE IF m \in {4, 6, 9, 11} THEN 30 ELSE 31

RECURSIVE DaysBeforeMonth(_, _)
DaysBeforeMonth(y, m) ==
    IF m = 1 THEN 0 ELSE DaysBeforeMonth(y, m - 1) + DaysOfMonth(y, m - 1)

\* the days with every year taken as 365 days
DaysSinceEpochOfCommonYears(date) ==
    (date[1] - 1970) * 365 + DaysBeforeMonth(date[1], date[2]) + (date[3] - 1)

\* the days from 1970-01-01 to a date of 1970 or later
DaysSinceEpoch(date) ==
    (date[1] - 1970) * 365 + Cardinality({y \in 1970..(date[1] - 1) : LeapYear(y)})
        + DaysBeforeMonth(date[1], date[2]) + (date[3] - 1)

\* the value of payload.after for a column value: bytea as lower-case hex, a date as
\* days since 1970-01-01, an integer range as the string of its canonical form
Normalised(value) ==
    CASE value.kind = "bytes" -> Value("string", Hex(value.v))
      [] value.kind = "date" -> Value("int32", DaysSinceEpoch(value.v))
      [] value.kind = "range" -> Value("string", RangeString(Stored(value.v)[1]))
      [] OTHER -> value

\* the schema type of a decoded value
SchemaTypeOf(value) ==
    CASE value.kind = "bool" -> "BOOLEAN"
      [] value.kind = "int32" -> "INT32"
      [] value.kind = "string" -> "STRING"

\* the time of the k-th insert of the test: 2023-01-01 at k - 1 o'clock UTC, and the
\* timestamptz as it is emitted
InsertTime(k) == k - 1
TimestampString(hour) == <<"2023-01-01T0", ToString(hour), ":00:00Z">>

\* the envelope of the row event of the k-th insert: a create with the row's columns
\* and the schema of the columns
Envelope(testCase, event) ==
    LET val == Normalised(DataTypeTable[testCase].value)
    IN  [op |-> "c",
         after |-> [ts |-> TimestampString(InsertTime(event.xid)), val |-> val.v],
         schema |-> [ts |-> "STRING", val |-> SchemaTypeOf(val)]]

\* the sink of the test collects the envelopes of the events that reach the sink
Collect ==
    dataTypeTest' =
        [dataTypeTest EXCEPT !.events =
            @ \o [i \in 1..(Len(sink') - Len(sink)) |->
                    Envelope(dataTypeTest.testCase, sink'[Len(sink) + i])]]

\* insert(t): one INSERT of one row, a transaction of its own
Insert ==
    /\ ServerCommit(1)
    /\ UNCHANGED dataTypeTest

InitDataTypeTests ==
    /\ InitReplication({tw \in TransactionWindows : tw.enabled \/ tw.maxSize = 0})
    /\ InitResolverFactory
    /\ InitStateSets
    /\ InitRegistry
    /\ InitBuilder
    /\ InitCatalog
    /\ InitSnapshot
    /\ InitSnapshotter
    /\ InitLsnLock
    /\ InitProcess
    /\ InitConfiguring
    /\ InitRangeColumn
    /\ InitNaming
    /\ InitSchema
    /\ InitStateManager
    /\ \E testCase \in TestCases : dataTypeTest = NewDataTypeTest(testCase)

\* one run of the test: the streamer is started once, the replication channel is not
\* interrupted
NextDataTypeTest ==
    \/ Insert /\ UNCHANGED besideDataTypeTest
    \/ StartReplicationContext /\ UNCHANGED <<streamVars, componentVars>>
    \/ StartReplicationChannel /\ Collect /\ UNCHANGED besideDataTypeTest
    \/ OnBeginEvent /\ Collect /\ UNCHANGED besideDataTypeTest
    \/ OnInsertEvent /\ Collect /\ UNCHANGED besideDataTypeTest
    \/ FlushWindowTimeout /\ Collect /\ UNCHANGED besideDataTypeTest
    \/ OnCommitEvent /\ Collect /\ UNCHANGED besideDataTypeTest

SpecDataTypeTest == InitDataTypeTests /\ [][NextDataTypeTest]_vars

(***************************************************************************)
(* Names: the topics of a hypertable and the names of its schemas          *)
(***************************************************************************)
\* the event topic of a hypertable named by its table alone
EventTopicNameOfTable(topicPrefix, hypertable) ==
    topicPrefix \o <<".">> \o hypertable.tableName

\* the default (Debezium) naming strategy: the event topic of a hypertable
EventTopicName(topicPrefix, hypertable) ==
    topicPrefix \o <<".">> \o hypertable.schemaName \o <<".">> \o hypertable.tableName

\* the default naming strategy: the schema topic of a hypertable
SchemaTopicName(topicPrefix, hypertable) ==
    topicPrefix \o <<".">> \o hypertable.schemaName \o <<".">> \o hypertable.tableName

\* the default naming strategy: the message topic
MessageTopicName(topicPrefix) ==
    topicPrefix \o <<".", "m", "e", "s", "s", "a", "g", "e">>

\* fmt.Sprintf("%s.Envelope", ...) and fmt.Sprintf("%s.Key", ...)
SprintfEnvelope(name) == name \o <<".", "E", "n", "v", "e", "l", "o", "p", "e">>
SprintfKey(name) == name \o <<".", "K", "e", "y">>

\* Registry.HypertableEnvelopeSchemaName, with the name written out
EnvelopeSchemaName(topicPrefix, hypertable) ==
    SprintfEnvelope(SchemaTopicName(topicPrefix, hypertable))

\* Registry.HypertableKeySchemaName
HypertableKeySchemaName(topicPrefix, hypertable) ==
    SprintfKey(SchemaTopicName(topicPrefix, hypertable))

\* Registry.MessageEnvelopeSchemaName
MessageEnvelopeSchemaName(topicPrefix) == SprintfEnvelope(MessageTopicName(topicPrefix))

\* the schema manager is asked for the names of the hypertable
ComputeNames ==
    /\ naming.names = <<>>
    /\ naming' =
         [naming EXCEPT !.names =
             <<[eventTopicName |-> EventTopicName(naming.topicPrefix, naming.hypertable),
                schemaTopicName |-> SchemaTopicName(naming.topicPrefix, naming.hypertable),
                messageTopicName |-> MessageTopicName(naming.topicPrefix),
                envelopeSchemaName |->
                    EnvelopeSchemaName(naming.topicPrefix, naming.hypertable),
                keySchemaName |->
                    HypertableKeySchemaName(naming.topicPrefix, naming.hypertable),
                messageEnvelopeSchemaName |->
                    MessageEnvelopeSchemaName(naming.topicPrefix)]>>]
    /\ UNCHANGED <<contextVars, streamVars>>

\* the names of prefixes, schemas and tables
Identifiers == {str \in Strings({"a", "b"}, MaxNameLen) : str # <<>>}

InitNames ==
    /\ InitReplication({[enabled |-> TRUE, maxSize |-> MaxWindowSize]})
    /\ InitResolverFactory
    /\ InitStateSets
    /\ InitRegistry
    /\ InitBuilder
    /\ InitCatalog
    /\ InitSnapshot
    /\ InitSnapshotter
    /\ InitLsnLock
    /\ InitProcess
    /\ InitConfiguring
    /\ InitRangeColumn
    /\ InitDataTypeTest
    /\ \E topicPrefix \in Identifiers, schemaName \in Identifiers, tableName \in Identifiers :
         naming = NewSchemaManager(topicPrefix, schemaName, tableName)
    /\ InitSchema
    /\ InitStateManager

NextNaming ==
    \/ ComputeNames /\ UNCHANGED besideNaming

SpecNaming == InitNames /\ [][NextNaming]_vars

(***************************************************************************)
(* Two schema builders that can hold the same maps: Version, DefaultValue, *)
(* Parameter, Field, Clone and Build                                       *)
(***************************************************************************)
\* the versions handed to Version
Versions == 0..MaxVersion

\* the texts handed to DefaultValue: the texts over digits, a sign and a dot, and the
\* words
DefaultCharacters == {"0", "1", "7", "-", "."}
DefaultWords ==
    {<<"t", "r", "u", "e">>, <<"f", "a", "l", "s", "e">>, <<"n", "o", "w">>, <<"t">>,
     <<"+", "7">>}
DefaultTexts == Strings(DefaultCharacters, MaxDefaultLen) \cup DefaultWords

\* strconv.ParseBool: <<value>>, or <<>> for the error
ParseBool(str) ==
    CASE str \in {<<"1">>, <<"t">>, <<"T">>, <<"T", "R", "U", "E">>,
                  <<"t", "r", "u", "e">>, <<"T", "r", "u", "e">>} -> <<TRUE>>
      [] str \in {<<"0">>, <<"f">>, <<"F">>, <<"F", "A", "L", "S", "E">>,
                  <<"f", "a", "l", "s", "e">>, <<"F", "a", "l", "s", "e">>} -> <<FALSE>>
      [] OTHER -> <<>>

\* the decimal digits among the characters, and the number a text of digits denotes
DecimalDigits == {"0", "1", "7"}
DigitValue(c) == CASE c = "0" -> 0 [] c = "1" -> 1 [] c = "7" -> 7

RECURSIVE DecimalNumber(_)
DecimalNumber(digits) ==
    IF digits = <<>> THEN 0
    ELSE 10 * DecimalNumber(SubSeq(digits, 1, Len(digits) - 1))
         + DigitValue(digits[Len(digits)])

\* the text without its sign, and the sign
Unsigned(str) == IF str # <<>> /\ str[1] \in {"+", "-"} THEN Tail(str) ELSE str
Signed(str, n) == IF str # <<>> /\ str[1] = "-" THEN 0 - n ELSE n

\* strconv.ParseInt(str, 10, 64): an optional sign and one or more decimal digits;
\* <<value>>, or <<>> for the error
ParseInt(str) ==
    LET digits == Unsigned(str)
    IN  IF digits # <<>> /\ \A i \in DOMAIN digits : digits[i] \in DecimalDigits
        THEN <<Signed(str, DecimalNumber(digits))>>
        ELSE <<>>

\* strconv.ParseFloat(str, 64) of a text over the characters: an optional sign, decimal
\* digits with at most one dot among them and one digit at least; the value is the
\* number the digits denote and the count of digits behind the dot; <<>> for the error
ParseFloat(str) ==
    LET mantissa == Unsigned(str)
        dots == {i \in DOMAIN mantissa : mantissa[i] = "."}
        digits == SelectSeq(mantissa, LAMBDA c : c # ".")
    IN  IF /\ Cardinality(dots) <= 1
           /\ digits # <<>>
           /\ \A i \in DOMAIN digits : digits[i] \in DecimalDigits
        THEN <<[unscaled |-> Signed(str, DecimalNumber(digits)),
                scale |-> IF dots = {} THEN 0
                          ELSE Len(mantissa) - (CHOOSE i \in dots : TRUE)]>>
        ELSE <<>>

\* the characters of a text as one string
RECURSIVE Text(_)
Text(str) == IF str = <<>> THEN "" ELSE str[1] \o Text(Tail(str))

\* what Build writes under FieldNameDefault: ParseBool, else ParseInt, else ParseFloat,
\* else the text itself; the value with the Go type it has
ParseDefault(defaultValue) ==
    CASE ParseBool(defaultValue) # <<>> ->
             [type |-> "bool", value |-> ToString(ParseBool(defaultValue)[1])]
      [] ParseInt(defaultValue) # <<>> ->
             [type |-> "int64", value |-> ToString(ParseInt(defaultValue)[1])]
      [] ParseFloat(defaultValue) # <<>> ->
             [type |-> "float64",
              value |-> ToString(ParseFloat(defaultValue)[1].unscaled) \o "e-"
                        \o ToString(ParseFloat(defaultValue)[1].scale)]
      [] OTHER -> [type |-> "string", value |-> Text(defaultValue)]

\* Clone: a new schemaBuilderImpl with every field copied except index; parameters and
\* fields are copied as references, so the clone holds the maps of the original
CloneImpl(s) ==
    [schemaType |-> s.schemaType, version |-> s.version, defaultValue |-> s.defaultValue,
     index |-> 0, parameters |-> s.parameters, fields |-> s.fields]

\* the map a reference refers to; ranging over the nil map yields nothing
MapOf(maps, reference) == IF reference = 0 THEN EmptyMap ELSE maps[reference]

\* the orders in which Build can list the fields: MapMapper ranges over the map in an
\* order Go does not fix, supporting.Sort then orders by this.Index() < other.Index()
FieldOrders(fields) ==
    {order \in [1..Cardinality(DOMAIN fields) -> DOMAIN fields] :
        /\ \A i, j \in DOMAIN order : i # j => order[i] # order[j]
        /\ \A i, j \in DOMAIN order :
               i < j => ~(fields[order[j]].index < fields[order[i]].index)}

\* Build with the fields in the given order: the type, for STRUCT the schemas of the
\* fields, the index when above -1, the default value, then the parameters, which
\* overwrite.  fieldName, schemaName and optional keep their zero values in these
\* builders, so Build writes none of them; the version is read by no line of Build.
BuildImpl(s, maps, order) ==
    LET fields == MapOf(maps, s.fields)
        schemaStruct == [key \in {"FieldNameType"} |-> s.schemaType]
        withFields == IF s.schemaType = "STRUCT"
                         THEN Put(schemaStruct, "FieldNameFields",
                                  [i \in DOMAIN order |-> fields[order[i]].schema])
                         ELSE schemaStruct
        withIndex == IF s.index > 0 - 1
                        THEN Put(withFields, "FieldNameIndex", s.index)
                        ELSE withFields
        withDefault == IF s.defaultValue # <<>>
                          THEN Put(withIndex, "FieldNameDefault",
                                   ParseDefault(s.defaultValue[1]))
                          ELSE withIndex
        parameters == MapOf(maps, s.parameters)
    IN  [key \in (DOMAIN withDefault) \cup (DOMAIN parameters) |->
            IF key \in DOMAIN parameters THEN parameters[key] ELSE withDefault[key]]

\* what Build of a builder can return
BuildResults(s, maps) ==
    {BuildImpl(s, maps, order) :
        order \in FieldOrders(IF s.schemaType = "STRUCT" THEN MapOf(maps, s.fields)
                              ELSE EmptyMap)}

\* a call on builder target (1 is b, 2 is c) that is no Build
Called(op, target, impl, maps) ==
    [impl |-> impl, maps |-> maps, last |-> [op |-> op, target |-> target],
     result |-> <<>>, calls |-> builders.calls + 1]

\* the builder after a write of key into the map its field refers to: a nil map is
\* made first (make(map...)), a map that exists is written in place
WriteMap(target, field, key, value) ==
    LET reference == builders.impl[target][field]
    IN  IF reference = 0
        THEN [impl |-> [builders.impl EXCEPT ![target][field] = Len(builders.maps) + 1],
              maps |-> Append(builders.maps, Put(EmptyMap, key, value))]
        ELSE [impl |-> builders.impl,
              maps |-> [builders.maps EXCEPT ![reference] = Put(@, key, value)]]

BuilderVersion(target, version) ==
    /\ target \in DOMAIN builders.impl
    /\ builders.calls < MaxBuilderCalls
    /\ builders' = Called("Version", target,
                          [builders.impl EXCEPT ![target].version = version],
                          builders.maps)
    /\ UNCHANGED <<contextVars, streamVars>>

BuilderDefaultValue(target, defaultValue) ==
    /\ target \in DOMAIN builders.impl
    /\ builders.calls < MaxBuilderCalls
    /\ builders' = Called("DefaultValue", target,
                          [builders.impl EXCEPT ![target].defaultValue = <<defaultValue>>],
                          builders.maps)
    /\ UNCHANGED <<contextVars, streamVars>>

BuilderParameter(target, key, value) ==
    /\ target \in DOMAIN builders.impl
    /\ builders.calls < MaxBuilderCalls
    /\ LET written == WriteMap(target, "parameters", key, value)
       IN  builders' = Called("Parameter", target, written.impl, written.maps)
    /\ UNCHANGED <<contextVars, streamVars>>

\* Field(name, index, schemaBuilder) with a new INT32 builder: the field holds the
\* builder's Clone with the field's name and index set, which builds to the schema kept
\* here
BuilderField(target, name, index) ==
    /\ target \in DOMAIN builders.impl
    /\ builders.calls < MaxBuilderCalls
    /\ LET written ==
               WriteMap(target, "fields", name,
                        [name |-> name, index |-> index,
                         schema |-> [FieldNameType |-> "INT32", FieldNameField |-> name,
                                     FieldNameIndex |-> index]])
       IN  builders' = Called("Field", target, written.impl, written.maps)
    /\ UNCHANGED <<contextVars, streamVars>>

\* c := b.Clone()
BuilderClone ==
    /\ Len(builders.impl) = 1
    /\ builders.calls < MaxBuilderCalls
    /\ builders' = Called("Clone", 1, Append(builders.impl, CloneImpl(builders.impl[1])),
                          builders.maps)
    /\ UNCHANGED <<contextVars, streamVars>>

\* Build of builder target: one of the results it can return
BuilderBuild(target) ==
    /\ target \in DOMAIN builders.impl
    /\ builders.calls < MaxBuilderCalls
    /\ \E result \in BuildResults(builders.impl[target], builders.maps) :
           builders' = [builders EXCEPT !.last = [op |-> "Build", target |-> target],
                                        !.result = <<result>>,
                                        !.calls = @ + 1]
    /\ UNCHANGED <<contextVars, streamVars>>

InitSchemas ==
    /\ InitReplication({[enabled |-> TRUE, maxSize |-> MaxWindowSize]})
    /\ InitResolverFactory
    /\ InitStateSets
    /\ InitRegistry
    /\ InitBuilder
    /\ InitCatalog
    /\ InitSnapshot
    /\ InitSnapshotter
    /\ InitLsnLock
    /\ InitProcess
    /\ InitConfiguring
    /\ InitRangeColumn
    /\ InitDataTypeTest
    /\ InitNaming
    /\ \E schemaType \in {"INT32", "STRUCT"} : builders = NewSchema(schemaType)
    /\ InitStateManager

Targets == {1, 2}

NextSchema ==
    \/ \E target \in Targets, version \in Versions :
           BuilderVersion(target, version) /\ UNCHANGED besideSchema
    \/ \E target \in Targets, key \in ParameterKeys, value \in 0..MaxParameter :
           BuilderParameter(target, key, value) /\ UNCHANGED besideSchema
    \/ \E target \in Targets, name \in FieldNames, index \in Indexes :
           BuilderField(target, name, index) /\ UNCHANGED besideSchema
    \/ BuilderClone /\ UNCHANGED besideSchema
    \/ \E target \in Targets : BuilderBuild(target) /\ UNCHANGED besideSchema

SpecSchema == InitSchemas /\ [][NextSchema]_vars

\* Build of a new builder after one DefaultValue
NextDefaults ==
    \/ \E defaultValue \in DefaultTexts :
           /\ builders.calls = 0
           /\ BuilderDefaultValue(1, defaultValue)
           /\ UNCHANGED besideSchema
    \/ BuilderBuild(1) /\ UNCHANGED besideSchema

SpecDefaults == InitSchemas /\ [][NextDefaults]_vars

(***************************************************************************)
(* Calls of stateManager.SnapshotContextTransaction by several goroutines, *)
(* step by step: each read and each write of the state storage is one step *)
(***************************************************************************)
\* the snapshot names and the hypertables the transaction functions mark complete
SnapshotNames == {"snapshot_a", "snapshot_b"}

\* goroutine g calls SnapshotContextTransaction(snapshotName, createIfNotExists,
\* transaction), where transaction marks the hypertable complete, or returns an error
\* when fails; before is what the state storage holds when the call is made
BeginTransaction(g, snapshotName, createIfNotExists, hypertable, fails) ==
    /\ stateManager.calls[g].pc \in {"idle", "done"}
    /\ stateManager.begun < MaxTransactionCalls
    /\ stateManager' =
         [stateManager EXCEPT
            !.begun = @ + 1,
            !.calls[g] = [pc |-> "retrieval", snapshotName |-> snapshotName,
                          createIfNotExists |-> createIfNotExists,
                          hypertable |-> hypertable, fails |-> fails,
                          snapshotContext |-> <<>>, err |-> "",
                          before |-> stateManager.encoded]]
    /\ UNCHANGED <<contextVars, streamVars>>

\* snapshotContext, err := retrieval(), up to the read of the state storage:
\* sm.SnapshotContext() decodes what is stored.  Nothing stored: with createIfNotExists
\* getOrCreateSnapshotContext goes on to make a new context, without it the call
\* returns "No such snapshot context found"
RetrieveSnapshotContext(g) ==
    /\ stateManager.calls[g].pc = "retrieval"
    /\ LET call == stateManager.calls[g]
           snapshotContext == SnapshotContext(stateManager.encoded)
       IN  stateManager' =
             [stateManager EXCEPT
                !.calls[g] =
                   IF snapshotContext # <<>>
                      THEN [call EXCEPT !.pc = "transaction",
                                        !.snapshotContext = snapshotContext]
                      ELSE IF call.createIfNotExists
                      THEN [call EXCEPT !.pc = "create"]
                      ELSE [call EXCEPT !.pc = "done", !.err = "no such snapshot context"]]
    /\ UNCHANGED <<contextVars, streamVars>>

\* getOrCreateSnapshotContext when nothing was stored: watermark.NewSnapshotContext and
\* sm.setSnapshotContext, which stores the new context
CreateSnapshotContext(g) ==
    /\ stateManager.calls[g].pc = "create"
    /\ LET snapshotContext == NewSnapshotContext(stateManager.calls[g].snapshotName)
       IN  stateManager' =
             [stateManager EXCEPT
                !.encoded = SetSnapshotContext(snapshotContext),
                !.calls[g].snapshotContext = <<snapshotContext>>,
                !.calls[g].pc = "transaction"]
    /\ UNCHANGED <<contextVars, streamVars>>

\* if err := transaction(snapshotContext); err != nil { return err }: the transaction
\* function works on the context the call holds
RunTransaction(g) ==
    /\ stateManager.calls[g].pc = "transaction"
    /\ LET call == stateManager.calls[g]
       IN  stateManager' =
             [stateManager EXCEPT
                !.calls[g] =
                   IF call.fails
                      THEN [call EXCEPT !.pc = "done", !.err = "transaction"]
                      ELSE [call EXCEPT
                              !.pc = "set",
                              !.snapshotContext =
                                 <<MarkComplete(call.snapshotContext[1], call.hypertable)>>]]
    /\ UNCHANGED <<contextVars, streamVars>>

\* sm.setSnapshotContext(snapshotContext): the context the call holds is stored, and
\* the call returns nil
StoreSnapshotContext(g) ==
    /\ stateManager.calls[g].pc = "set"
    /\ stateManager' =
         [stateManager EXCEPT
            !.encoded = SetSnapshotContext(stateManager.calls[g].snapshotContext[1]),
            !.calls[g].pc = "done"]
    /\ UNCHANGED <<contextVars, streamVars>>

\* no goroutine is inside a call
NoCallRunning == \A g \in Goroutines : stateManager.calls[g].pc \in {"idle", "done"}

InitStateManagers ==
    /\ InitReplication({[enabled |-> TRUE, maxSize |-> MaxWindowSize]})
    /\ InitResolverFactory
    /\ InitStateSets
    /\ InitRegistry
    /\ InitBuilder
    /\ InitCatalog
    /\ InitSnapshot
    /\ InitSnapshotter
    /\ InitLsnLock
    /\ InitProcess
    /\ InitConfiguring
    /\ InitRangeColumn
    /\ InitDataTypeTest
    /\ InitNaming
    /\ InitSchema
    /\ InitStateManager

\* the steps of the calls that were begun
TransactionSteps ==
    \/ \E g \in Goroutines : RetrieveSnapshotContext(g) /\ UNCHANGED besideStateManager
    \/ \E g \in Goroutines : CreateSnapshotContext(g) /\ UNCHANGED besideStateManager
    \/ \E g \in Goroutines : RunTransaction(g) /\ UNCHANGED besideStateManager
    \/ \E g \in Goroutines : StoreSnapshotContext(g) /\ UNCHANGED besideStateManager

\* calls that run one after the other
NextTransaction ==
    \/ \E g \in Goroutines, snapshotName \in SnapshotNames, createIfNotExists \in BOOLEAN,
          hypertable \in HypertableIds, fails \in BOOLEAN :
           /\ NoCallRunning
           /\ BeginTransaction(g, snapshotName, createIfNotExists, hypertable, fails)
           /\ UNCHANGED besideStateManager
    \/ TransactionSteps

SpecTransaction == InitStateManagers /\ [][NextTransaction]_vars

\* calls that run concurrently
NextTransactions ==
    \/ \E g \in Goroutines, snapshotName \in SnapshotNames, createIfNotExists \in BOOLEAN,
          hypertable \in HypertableIds, fails \in BOOLEAN :
           /\ BeginTransaction(g, snapshotName, createIfNotExists, hypertable, fails)
           /\ UNCHANGED besideStateManager
    \/ TransactionSteps

SpecTransactions == InitStateManagers /\ [][NextTransactions]_vars

(***************************************************************************)
(* Properties                                                              *)
(***************************************************************************)
\* the LSN that AcknowledgeProcessed(xld, processedLSN) acknowledges: processedLSN when
\* given, otherwise xld.WALStart + len(xld.WALData)
Acknowledged(xld, processedLSN) ==
    IF Len(processedLSN) > 0 THEN processedLSN[1] ELSE xld.WALStart + xld.WALDataLen

Max(a, b) == IF a >= b THEN a ELSE b

\* the stored LSN of the slot's offset is not ahead of the in-memory lastProcessed
StoredNotAhead == Len(Offset) > 0 => Offset[1].LSN <= lastProcessedLSN

\* C1 as stated: on one replication context, no AcknowledgeReceived, AcknowledgeProcessed
\* or SetPositionLSNs call (nor any other call) decreases lastProcessed.
C1_NeverDecreases ==
    [][lastCall'.op # "NewReplicationContext" => lastProcessedLSN' >= lastProcessedLSN]_vars

\* C1 amended: every call on one replication context other than SetPositionLSNs leaves
\* lastProcessed equal or greater; SetPositionLSNs(r, p) sets lastProcessed to p, whatever
\* the value before.
C1_NeverDecreasesButSetPosition ==
    [][/\ lastCall'.op \notin {"NewReplicationContext", "SetPositionLSNs"}
            => lastProcessedLSN' >= lastProcessedLSN
       /\ lastCall'.op = "SetPositionLSNs"
            => \A r \in LSNArgs, p \in LSNArgs :
                 SetPositionLSNs(r, p) => lastProcessedLSN' = p]_vars

\* C1 witness: AcknowledgeProcessed has run and lastProcessed stands at the highest LSN
\* a call can name, ahead of lastReceived.
C1_Witness ==
    /\ lastCall.op = "AcknowledgeProcessed"
    /\ lastCall.err = ""
    /\ lastProcessedLSN = MaxLSNArg
    /\ lastReceivedLSN < lastProcessedLSN

\* C2 as stated: lastProcessed <= lastReceived in every state reached by
\* AcknowledgeReceived and AcknowledgeProcessed calls with arbitrary arguments.
C2_ProcessedNotAheadOfReceived == lastProcessedLSN <= lastReceivedLSN

\* C2 amended: lastProcessed <= lastReceived holds initially and is kept by every
\* AcknowledgeReceived(xld) whose xld ends at or after lastProcessed and by every
\* AcknowledgeProcessed(xld, p) whose acknowledged LSN is not above lastReceived.
C2_KeptByConformingCalls ==
    [][lastProcessedLSN <= lastReceivedLSN =>
         /\ \A xld \in XLogDatas :
              (/\ AcknowledgeReceived(xld)
               /\ xld.WALStart + xld.WALDataLen >= lastProcessedLSN)
              => lastProcessedLSN' <= lastReceivedLSN'
         /\ \A failure \in Failures, p \in OptLSNs, xld \in XLogDatas :
              (/\ failure = lastCall'.err
               /\ Acknowledged(xld, p) <= lastReceivedLSN
               /\ AcknowledgeProcessed(xld, p, failure))
              => lastProcessedLSN' <= lastReceivedLSN']_vars

\* C2 witness: an AcknowledgeProcessed has advanced lastProcessed up to lastReceived.
C2_Witness ==
    /\ lastCall.op = "AcknowledgeProcessed"
    /\ lastCall.err = ""
    /\ lastProcessedLSN = lastReceivedLSN
    /\ lastProcessedLSN > 0

\* C3 as stated: while the replication context is started, the LSN of the slot's offset
\* in the state store is never greater than the in-memory lastProcessed.
C3_StoredNeverAhead == lifecycle = "started" => StoredNotAhead

\* C3 amended: an AcknowledgeProcessed whose Get and Set succeed leaves the stored LSN
\* equal to lastProcessed, and no call other than StartReplicationContext (which loads
\* the persisted offset into a context whose lastProcessed is 0) and SetPositionLSNs
\* puts the stored LSN ahead of lastProcessed.
C3_StoredAheadOnlyAfterLoadOrSetPosition ==
    [][/\ (lastCall'.op = "AcknowledgeProcessed" /\ lastCall'.err = "")
            => (Len(Offset') > 0 /\ Offset'[1].LSN = lastProcessedLSN')
       /\ (lastCall'.op \notin {"StartReplicationContext", "SetPositionLSNs"} /\ StoredNotAhead)
            => StoredNotAhead']_vars

\* C3 witness: the context was started on a persisted offset ahead of its lastProcessed
\* and a first AcknowledgeProcessed has brought the stored LSN to lastProcessed.
C3_Witness ==
    /\ lastCall.op = "AcknowledgeProcessed"
    /\ lastCall.err = ""
    /\ replicationSlotName \in DOMAIN storage
    /\ storage[replicationSlotName].LSN > lastProcessedLSN
    /\ Offset[1].LSN = lastProcessedLSN

\* C4: AcknowledgeProcessed(xld, p) sets lastProcessed to the maximum of its previous
\* value and the acknowledged LSN (p, or xld.WALStart + len(xld.WALData) without p);
\* having read the slot's offset it calls Set with the slot name and an offset whose LSN
\* is the resulting lastProcessed and whose timestamp is xld.ServerTime, and a Set that
\* succeeds leaves that offset in the state store.
C4_AcknowledgeProcessed ==
    [][lastCall'.op = "AcknowledgeProcessed" =>
       \A failure \in Failures, p \in OptLSNs, xld \in XLogDatas :
         (failure = lastCall'.err /\ AcknowledgeProcessed(xld, p, failure)) =>
           LET expected == Max(lastProcessedLSN, Acknowledged(xld, p))
           IN  /\ lastProcessedLSN' = expected
               /\ failure # "get" =>
                     /\ Len(lastCall'.set) = 1
                     /\ lastCall'.set[1].key = replicationSlotName
                     /\ lastCall'.set[1].value.LSN = expected
                     /\ lastCall'.set[1].value.Timestamp = xld.ServerTime
               /\ failure = "" =>
                     /\ replicationSlotName \in DOMAIN offsets'
                     /\ offsets'[replicationSlotName].LSN = expected
                     /\ offsets'[replicationSlotName].Timestamp = xld.ServerTime]_vars

\* C4 witness: an AcknowledgeProcessed has advanced lastProcessed and stored it with
\* its XLogData's server time.
C4_Witness ==
    /\ lastCall.op = "AcknowledgeProcessed"
    /\ lastCall.err = ""
    /\ lastProcessedLSN > 0
    /\ lastCall.set[1].value.LSN = lastProcessedLSN
    /\ Offset[1].LSN = lastProcessedLSN
    /\ Offset[1].Timestamp \in ServerTimes

\* C5: AcknowledgeReceived(xld) sets lastReceived to xld.WALStart + len(xld.WALData) and
\* changes neither lastProcessed, lastBegin, lastCommit, lastTransactionId nor the offsets
\* of the state store and of its back-end.
C5_AcknowledgeReceived ==
    [][lastCall'.op = "AcknowledgeReceived" =>
       \A xld \in XLogDatas :
         AcknowledgeReceived(xld) =>
           /\ lastReceivedLSN' = xld.WALStart + xld.WALDataLen
           /\ UNCHANGED <<lastProcessedLSN, lastBeginLSN, lastCommitLSN, lastTransactionId,
                          offsets, storage>>]_vars

\* C5 witness: AcknowledgeReceived has run on a context whose other fields and offset
\* are set, and lastReceived is at the highest end an XLogData can have.
C5_Witness ==
    /\ lastCall.op = "AcknowledgeReceived"
    /\ lastReceivedLSN = MaxWALStart + MaxWALData
    /\ lastProcessedLSN > 0
    /\ lastBeginLSN > 0
    /\ lastCommitLSN > 0
    /\ lastTransactionId > 0
    /\ Len(Offset) > 0

\* e is before f in the order (source.lsn, intra-transaction sequence)
Ordered(e, f) == e.lsn < f.lsn \/ (e.lsn = f.lsn /\ e.seq < f.seq)

RECURSIVE Distinct(_)
\* the sequence without the repetitions of earlier elements
Distinct(seq) ==
    IF seq = <<>> THEN <<>>
    ELSE LET front == SubSeq(seq, 1, Len(seq) - 1)
             last == seq[Len(seq)]
         IN  IF \E i \in 1..Len(front) : front[i] = last
                THEN Distinct(front)
                ELSE Append(Distinct(front), last)

C11_SizeTriggeredFlushes ==
    [][LET m == transactionWindow.maxSize
           k == channel.txn
           row == channel.msg
           emitted == SubSeq(sink', Len(sink) + 1, Len(sink'))
       IN  /\ Len(sink') >= Len(sink)
           /\ SubSeq(sink', 1, Len(sink)) = sink
           /\ OnInsertEvent =>
                 emitted = IF row % m = 0
                              THEN [i \in 1..m |-> RowEvent(wal, k, row - m + i)]
                              ELSE <<>>
           /\ OnCommitEvent =>
                 LET n == wal[k].rows
                 IN  emitted = [i \in 1..(n % m) |-> RowEvent(wal, k, n - (n % m) + i)]
           /\ ~(OnInsertEvent \/ OnCommitEvent) => emitted = <<>>]_vars

\* C11 witness: a transaction of more rows than maxSize, not a multiple of it, is
\* committed and emitted in full: one flush by size and the rest at commit.
C11_Witness ==
    /\ Tracking
    /\ lastCall.op = "OnCommitEvent"
    /\ channel.txn = 2
    /\ wal[1].rows > transactionWindow.maxSize
    /\ wal[1].rows % transactionWindow.maxSize # 0
    /\ sink = AllRows(SubSeq(wal, 1, 1))

\* what is configured for a property: the environment variable when set, otherwise the
\* configuration file's value, otherwise the default
ConfiguredEnabled ==
    IF Len(resolverFactory.envEnabled) > 0 THEN resolverFactory.envEnabled[1] = "true"
    ELSE IF Len(resolverFactory.fileEnabled) > 0 THEN resolverFactory.fileEnabled[1]
    ELSE TRUE

ConfiguredMaxSize ==
    IF Len(resolverFactory.envMaxSize) > 0
       THEN (IF resolverFactory.envMaxSize[1] = "0" THEN 0 ELSE 1)
    ELSE IF Len(resolverFactory.fileMaxSize) > 0 THEN resolverFactory.fileMaxSize[1]
    ELSE DefaultMaxSize

\* C12 as stated: NewTransactionResolver returns the transaction tracker iff the window
\* is configured enabled and its configured maxSize is above 0; configured as
\* enabled = false, or with maxSize 0, it returns the plain logical replication resolver.
C12_ResolverByConfiguration ==
    resolverFactory.resolver # "" =>
        resolverFactory.resolver =
            IF ConfiguredEnabled /\ ConfiguredMaxSize > 0
               THEN "transactionTracker" ELSE "logicalReplicationResolver"

\* C13: the tasks submitted with EnqueueTask or EnqueueTaskAndWait are executed one at a
\* time and in the order of their submission: at most one task runs, and what was
\* executed, followed by the task that runs and by what is queued, is the sequence of the
\* accepted submissions in their order.
C13_ExecutedInSubmissionOrder ==
    /\ Len(dispatcher.current) <= 1
    /\ dispatcher.executed \o dispatcher.current \o dispatcher.queue = dispatcher.accepted

\* C13 witness: all tasks were submitted, not in the order of their numbers and in both
\* ways, two of them were queued at once, and all are executed.
C13_Witness ==
    /\ dispatcher.status = "running"
    /\ Len(dispatcher.executed) = MaxTasks
    /\ dispatcher.executed[1] > dispatcher.executed[2]
    /\ dispatcher.executed = dispatcher.accepted
    /\ lastCall.op = "CompleteTask"

\* the tasks of a sequence
Range(seq) == {seq[i] : i \in 1..Len(seq)}

\* C14: a StopReplicationContext that succeeds runs, through StopDispatcher, every task
\* that was pending when it was called, in order, and leaves the queue closed and empty
\* with every accepted task executed; a task submitted with EnqueueTask or
\* EnqueueTaskAndWait to the closed queue is refused with Closed and is never executed.
C14_StopDrainsThenCloses ==
    [][/\ (lastCall'.op = "StopReplicationContext" /\ lastCall'.err = ""
             /\ lifecycle = "started") =>
              /\ dispatcher'.executed =
                     dispatcher.executed \o dispatcher.current \o dispatcher.queue
              /\ dispatcher'.status = "closed"
       /\ dispatcher'.status = "closed" =>
              /\ dispatcher'.queue = <<>>
              /\ dispatcher'.current = <<>>
              /\ dispatcher'.executed = dispatcher'.accepted
              /\ dispatcher'.rejected \cap Range(dispatcher'.executed) = {}
       /\ \A t \in Tasks :
              (dispatcher.status = "closed" /\ (EnqueueTask(t) \/ EnqueueTaskAndWait(t))) =>
                  /\ lastCall'.err = "Closed"
                  /\ t \in dispatcher'.rejected
                  /\ dispatcher'.executed = dispatcher.executed
                  /\ dispatcher'.queue = dispatcher.queue]_vars

\* C14 witness: the stop found two tasks pending and ran them, and a task submitted
\* after it was refused with Closed.
C14_Witness ==
    /\ dispatcher.status = "closed"
    /\ dispatcher.pending = 2
    /\ Len(dispatcher.executed) = 2
    /\ dispatcher.rejected # {}
    /\ lastCall.err = "Closed"

C16_StopFlushesLastSet ==
    lifecycle = "stopped" =>
        \A slot \in Slots :
            stateSets[slot].made > 0 =>
                /\ slot \in DOMAIN storage
                /\ <<storage[slot]>> = stateSets[slot].last

\* C16 witness: two different values were Set for one slot and a value for another
\* slot, and the store is stopped holding the later value.
C16_Witness ==
    /\ lifecycle = "stopped"
    /\ lastCall.op = "StopReplicationContext"
    /\ stateSets["slot_a"].made = 2
    /\ stateSets["slot_a"].previous # stateSets["slot_a"].last
    /\ stateSets["slot_b"].made > 0
    /\ <<storage["slot_a"]>> = stateSets["slot_a"].last

\* C17 as stated: for every schema name, over all calls of GetSchemaOrCreate, from
\* different goroutines and from inside a running creator, the creator is invoked at most
\* once and every call returns the same schema.
C17_CreatorInvokedAtMostOnce ==
    \A schemaName \in SchemaNames :
        /\ registry.invocations[schemaName] <= 1
        /\ Cardinality(registry.returned[schemaName]) <= 1

\* C18 as stated: for every builder, whatever its schema type, field name, index (the
\* initial index of a new builder included), optional flag, default value, parameters
\* and fields, Build of its Clone returns the same schema as Build of the builder.
C18_CloneBuildsTheSame ==
    builder.built # <<>> => builder.builtClone = builder.built

\* C19 as stated: after any sequence of hypertable discovery, create and drop events, a
\* hypertable is in the catalog mirror if and only if its schema is registered in the
\* schema registry.
C19_PresentIffSchemaRegistered ==
    \A hypertable \in HypertableIds :
        hypertable \in catalog.hypertables
          <=> HypertableEnvelopeSchemaName(hypertable) \in DOMAIN registry.schemaRegistry

Overrode(e) == e.window /\ e.row.key <= snapshot.rows

\* the value the snapshot emits for a key: the last streamed value that overrode the
\* row, or the value of the snapshot
RECURSIVE EmittedValue(_, _)
EmittedValue(key, n) ==
    IF n = 0
       THEN 0
       ELSE IF Overrode(snapshot.streamed[n]) /\ snapshot.streamed[n].row.key = key
               THEN snapshot.streamed[n].row.val
               ELSE EmittedValue(key, n - 1)

\* the streamed rows that did not override a snapshot row, as they were streamed
PassedRows ==
    LET passed == SelectSeq(snapshot.streamed, LAMBDA e : ~Overrode(e))
    IN  [i \in 1..Len(passed) |-> passed[i].row]

C23_NoLockAcrossStateStore ==
    \A g \in Workers :
        lsnLock.at[g].step \in {"Get", "Set", "flush", "network"} => lsnLock.holder # g

\* C23 amended: no operation of the replication context holds lsnMutex while it executes
\* a state-store flush or network I/O; AcknowledgeProcessed holds it while it reads the
\* slot's offset from the state store and hands the new offset to Set.
C23_NoLockAcrossFlushOrNetwork ==
    \A g \in Workers :
        /\ lsnLock.at[g].step \in {"flush", "network"} => lsnLock.holder # g
        /\ lsnLock.at[g].step \in {"Get", "Set"} => lsnLock.holder = g

\* one goroutine is in the Set of AcknowledgeProcessed while another flushes the state
\* store and a third queries the side channel
C23_Witness ==
    \E g, h, i \in Workers :
        /\ lsnLock.at[g].step = "Set"
        /\ lsnLock.at[h].step = "flush"
        /\ lsnLock.at[i].step = "network"

\* the startup checks in the order of the claim, each with whether it fails in the
\* environment (a later check fails only if it is reached) and with its exit code
FailingChecks(env) ==
    {i \in 1..5 :
        \/ i = 1 /\ env.file /\ ~env.opens
        \/ i = 2 /\ env.file /\ ~env.reads
        \/ i = 3 /\ env.file /\ ~env.decodes
        \/ i = 4 /\ ~env.connection
        \/ i = 5 /\ env.connects /\ ~env.extension}

CheckExitCodes == <<3, 4, 5, 6, 17>>

\* C24: the startup checks run in the order open, read, decode, connection, extension;
\* the first check that fails ends the process with exit code 3, 4, 5, 6 or 17, and the
\* streamer is never started after a failed check.
C24_StartupChecksInOrder ==
    LET failing == FailingChecks(process.env)
    IN  failing # {} =>
            /\ ~process.started
            /\ process.pc # "start" =>
                   /\ process.pc = "exited"
                   /\ process.exit =
                        <<CheckExitCodes[CHOOSE i \in failing : \A j \in failing : i <= j]>>

\* the configuration file decodes but names no connection, and the extension is absent
\* too: the process ended with the code of the connection check
C24_Witness ==
    /\ FailingChecks(process.env) = {4, 5}
    /\ process.pc = "exited"
    /\ process.exit = <<6>>

\* the step in which streamer.Stop() returns an error to the signal goroutine
StopFails == StopReturns /\ process.env.stopErr

\* C25 as stated: an error returned by the streamer's Stop during the shutdown a signal
\* triggered, or by the wait for the shutdown to finish, ends the process with exit
\* code 10.
C25_RuntimeErrorsExitTen ==
    [][(StopFails \/ AwaitFails) =>
           process'.pc = "exited" /\ process'.exit = <<10>>]_vars

\* C25 amended: an error returned by the wait for the shutdown to finish ends the
\* process with exit code 10; an error returned by the streamer's Stop during the
\* shutdown a signal triggered ends the process with exit code 1.
C25_AwaitErrorExitsTenStopErrorExitsOne ==
    [][/\ AwaitFails => process'.pc = "exited" /\ process'.exit = <<10>>
       /\ StopFails => process'.pc = "exited" /\ process'.exit = <<1>>]_vars

\* the streamer was created and started without error, a signal had Stop called, Stop
\* returned an error and the process ended with code 1
C25_Witness ==
    /\ process.env.connects /\ ~process.env.startErr /\ process.env.stopErr
    /\ process.started
    /\ process.stops = 1
    /\ process.pc = "exited"
    /\ process.exit = <<1>>

\* C26: once the streamer has started, the receipt of SIGINT, SIGTERM or SIGQUIT
\* eventually leads to exactly one call of the streamer's Stop, and when that Stop
\* succeeds the process terminates with exit code 0.
C26_SignalLeadsToOneStop ==
    /\ [](process.stops <= 1)
    /\ (process.pc = "await" /\ process.signals > 0) ~> (process.stops = 1)
    /\ (process.pc = "await" /\ process.signalled) ~>
           (process.pc = "exited" /\ process.exit = <<0>>)

\* the streamer was started, a signal had Stop called once, Stop succeeded and the
\* process ended with code 0
C26_Witness ==
    /\ process.started
    /\ process.sent > 0
    /\ process.stops = 1
    /\ process.signalled
    /\ process.pc = "exited"
    /\ process.exit = <<0>>

\* the name the claim gives the environment variable: character by character, a letter
\* in upper case, two underscores for an underscore, an underscore for a dot
RECURSIVE ClaimedEnvVarName(_)
ClaimedEnvVarName(k) ==
    IF k = <<>> THEN <<>>
    ELSE (CASE Head(k) = "_" -> <<"_", "_">>
            [] Head(k) = "." -> <<"_">>
            [] OTHER -> <<"A">>) \o ClaimedEnvVarName(Tail(k))

\* the value an environment variable's string stands for in a type
Parsed(type, value) == IF type = "string" THEN value ELSE value = "true"

\* C27: GetOrDefault consults the environment variable named by upper-casing the key,
\* replacing every '_' by '__' and every '.' by '_'; set to a non-empty value, its value
\* is returned in place of the file's value, and the file's value in place of the default.
C27_EnvOverridesFileOverridesDefault ==
    LET c == configuring
        env == IF c.environ # <<>> /\ c.environ[1].name = ClaimedEnvVarName(c.canonicalProperty)
                  /\ c.environ[1].value # ""
               THEN <<c.environ[1].value>> ELSE <<>>
    IN  c.result # <<>> =>
            c.result = IF env # <<>> THEN <<"returns", Parsed(c.type, env[1])>>
                       ELSE IF c.element # <<>> THEN <<"returns", c.element[1]>>
                       ELSE <<"returns", c.defaultValue>>

\* the same for the properties of string type whose file value is not the empty string
StringPropertiesFollowTheRule ==
    LET c == configuring
    IN  (c.type = "string" /\ c.element # <<"">>) => C27_EnvOverridesFileOverridesDefault

\* the integers of a range written with brackets and bounds
Elements(lowerInc, lower, upper, upperInc) ==
    {i \in 0..(MaxRangeValue + 1) :
        /\ lower = <<>> \/ (IF lowerInc THEN i >= lower[1] ELSE i > lower[1])
        /\ upper = <<>> \/ (IF upperInc THEN i <= upper[1] ELSE i < upper[1])}

\* the bounds an emitted string names: what stands between the bracket and the comma,
\* and between the comma and the bracket
NumberOf(digits) == CHOOSE n \in 0..(MaxRangeValue + 2) : ToString(n) = digits
LowerOf(str) == IF str[2] = "," THEN <<>> ELSE <<NumberOf(str[2])>>
UpperOf(str) == IF str[Len(str) - 1] = "," THEN <<>> ELSE <<NumberOf(str[Len(str) - 1])>>

\* C29: a discrete integer range is emitted in canonical form: a finite lower bound is
\* inclusive (an exclusive bound lo becomes '[lo+1'), a finite upper bound is exclusive
\* (an inclusive bound hi becomes 'hi+1)'), an unbounded side is written as an exclusive
\* bound without value; '(10,20]' becomes '[11,21)' and '(10,)' becomes '[11,)'.
C29_IntegerRangesCanonical ==
    LET value == rangeColumn.value
        str == rangeColumn.emitted
    IN  (str # <<>> /\ str # <<"empty">>) =>
            /\ str[1] = (IF value.lower = <<>> THEN "(" ELSE "[")
            /\ str[Len(str)] = ")"
            /\ LowerOf(str) = (IF value.lower = <<>> THEN <<>>
                               ELSE IF value.lowerInc THEN value.lower
                               ELSE <<value.lower[1] + 1>>)
            /\ UpperOf(str) = (IF value.upper = <<>> THEN <<>>
                               ELSE IF value.upperInc THEN <<value.upper[1] + 1>>
                               ELSE value.upper)
            /\ Elements(str[1] = "[", LowerOf(str), UpperOf(str), FALSE)
                 = Elements(value.lowerInc, value.lower, value.upper, value.upperInc)
            /\ \A test \in RangeTests : test.value = value => str = test.expected

\* '(10,20]' was inserted and '[11,21)' emitted
C29_Witness ==
    /\ rangeColumn.value = IntRange(FALSE, <<10>>, <<20>>, TRUE)
    /\ rangeColumn.emitted = <<"[", "11", ",", "21", ")">>

\* C28: every single-row INSERT produces exactly one envelope with op=c whose
\* payload.after holds the inserted column values and whose schema declares each column
\* with the schema type mapped from its PostgreSQL type; n inserts produce n envelopes.
C28_OneCreateEnvelopePerInsert ==
    LET test == DataTypeTable[dataTypeTest.testCase]
        events == dataTypeTest.events
    IN  /\ Len(events) <= Len(wal)
        /\ CaughtUp => Len(events) = Len(wal)
        /\ \A k \in 1..Len(events) :
              /\ events[k].op = "c"
              /\ events[k].after.ts = <<"2023-01-01T0", ToString(k - 1), ":00:00Z">>
              /\ events[k].after.val = test.expected.v
              /\ events[k].schema.val = test.schemaType

\* two rows with a bytea column were inserted and the sink holds their two envelopes
C28_Witness ==
    /\ dataTypeTest.testCase = "bytea"
    /\ Len(wal) = 2
    /\ CaughtUp
    /\ Len(dataTypeTest.events) = 2
    /\ dataTypeTest.events[2].after.val = <<"d", "e", "a", "d", "b", "e", "e", "f">>

\* the first n and the last n characters of a string, and the parts of a string
\* between its dots
Front(str, n) == SubSeq(str, 1, n)
Back(str, n) == SubSeq(str, Len(str) - n + 1, Len(str))

RECURSIVE SplitAtDots(_)
SplitAtDots(str) ==
    IF \A i \in 1..Len(str) : str[i] # "." THEN <<str>>
    ELSE LET dot == CHOOSE i \in 1..Len(str) :
                        str[i] = "." /\ \A j \in 1..(i - 1) : str[j] # "."
         IN  <<SubSeq(str, 1, dot - 1)>> \o SplitAtDots(SubSeq(str, dot + 1, Len(str)))

\* C30: the event topic name of a hypertable is '{topicPrefix}.{schema}.{table}', its
\* envelope schema name is its schema topic name followed by '.Envelope', its key schema
\* name is its schema topic name followed by '.Key'; the message envelope schema name is
\* the message topic name followed by '.Envelope'.
C30_TopicAndSchemaNames ==
    naming.names # <<>> =>
        LET names == naming.names[1]
        IN  /\ SplitAtDots(names.eventTopicName)
                 = <<naming.topicPrefix, naming.hypertable.schemaName,
                     naming.hypertable.tableName>>
            /\ Front(names.envelopeSchemaName, Len(names.schemaTopicName))
                 = names.schemaTopicName
            /\ Back(names.envelopeSchemaName, 9)
                 = <<".", "E", "n", "v", "e", "l", "o", "p", "e">>
            /\ Len(names.envelopeSchemaName) = Len(names.schemaTopicName) + 9
            /\ Front(names.keySchemaName, Len(names.schemaTopicName)) = names.schemaTopicName
            /\ Back(names.keySchemaName, 4) = <<".", "K", "e", "y">>
            /\ Len(names.keySchemaName) = Len(names.schemaTopicName) + 4
            /\ Front(names.messageEnvelopeSchemaName, Len(names.messageTopicName))
                 = names.messageTopicName
            /\ Back(names.messageEnvelopeSchemaName, 9)
                 = <<".", "E", "n", "v", "e", "l", "o", "p", "e">>
            /\ Len(names.messageEnvelopeSchemaName) = Len(names.messageTopicName) + 9

\* the names of hypertable ab.b under the prefix a are computed: its event topic is
\* a.ab.b and its key schema a.ab.b.Key
C30_Witness ==
    /\ naming.names # <<>>
    /\ naming.names[1].eventTopicName = <<"a", ".", "a", "b", ".", "b">>
    /\ naming.names[1].keySchemaName = <<"a", ".", "a", "b", ".", "b", ".", "K", "e", "y">>

\* C31: a schema that Build returns for a builder on which Version(v) was called carries
\* v as its version, for every schema type.
C31_BuildCarriesVersion ==
    (builders.last.op = "Build" /\ builders.impl[builders.last.target].version > 0) =>
        LET schemaStruct == builders.result[1]
        IN  /\ "FieldNameVersion" \in DOMAIN schemaStruct
            /\ schemaStruct["FieldNameVersion"]
                 = builders.impl[builders.last.target].version

\* the field schemas of the last Build, and whether they are in ascending order of
\* index with every field name at most once
FieldSchemas(b) ==
    IF "FieldNameFields" \in DOMAIN b.result[1] THEN b.result[1]["FieldNameFields"]
    ELSE <<>>

AscendingAndUnique(fieldSchemas) ==
    \A i, j \in DOMAIN fieldSchemas :
        i < j => /\ fieldSchemas[i].FieldNameIndex <= fieldSchemas[j].FieldNameIndex
                 /\ fieldSchemas[i].FieldNameField # fieldSchemas[j].FieldNameField

\* every Build lists the fields in ascending order of index, every name at most once
FieldsAscendingAndUnique ==
    builders.last.op = "Build" => AscendingAndUnique(FieldSchemas(builders))

\* C32: Build of a STRUCT builder lists the fields in ascending order of index, each
\* field name at most once, and a second Build of the same unmodified builder yields
\* the same field sequence as the first, also when two fields have the same index.
C32_FieldsInIndexOrderAndRepeatable ==
    [][builders'.last.op = "Build" =>
          /\ AscendingAndUnique(FieldSchemas(builders'))
          /\ builders.last = builders'.last =>
                 FieldSchemas(builders') = FieldSchemas(builders)]_vars

\* two Builds in a row of a builder whose fields have different indexes yield the same
\* field sequence
DistinctIndexes(b) ==
    LET fields == MapOf(b.maps, b.impl[b.last.target].fields)
    IN  \A name, other \in DOMAIN fields :
            name # other => fields[name].index # fields[other].index

RepeatableForDistinctIndexes ==
    [][(builders'.last.op = "Build" /\ builders.last = builders'.last
        /\ DistinctIndexes(builders)) =>
          FieldSchemas(builders') = FieldSchemas(builders)]_vars

\* C33: after c := b.Clone(), a Parameter or Field call on c does not change what
\* b.Build() returns, and a Parameter or Field call on b does not change what c.Build()
\* returns.
C33_CloneIsIndependent ==
    [][(Len(builders.impl) = 2 /\ builders'.last.op \in {"Parameter", "Field"}) =>
          LET other == 3 - builders'.last.target
          IN  BuildResults(builders'.impl[other], builders'.maps)
                = BuildResults(builders.impl[other], builders.maps)]_vars

\* a clone made of a builder that had neither parameters nor fields is independent
ClonedWithoutMaps(b) ==
    /\ Len(b.impl) = 2
    /\ \A field \in {"parameters", "fields"} :
           b.impl[1][field] = 0 \/ b.impl[1][field] # b.impl[2][field]

IndependentWithoutSharedMaps ==
    [][(ClonedWithoutMaps(builders) /\ builders'.last.op \in {"Parameter", "Field"}) =>
          LET other == 3 - builders'.last.target
          IN  BuildResults(builders'.impl[other], builders'.maps)
                = BuildResults(builders.impl[other], builders.maps)]_vars

\* the type the literal of a textual default has: a base-10 integer literal is an
\* integer, true and false are booleans, a decimal literal is a float, any other text
\* is a string
LiteralType(str) ==
    LET mantissa == Unsigned(str)
        digits == SelectSeq(mantissa, LAMBDA c : c # ".")
        allDigits == digits # <<>> /\ \A i \in DOMAIN digits : digits[i] \in DecimalDigits
    IN  CASE str \in {<<"t", "r", "u", "e">>, <<"f", "a", "l", "s", "e">>} -> "bool"
          [] allDigits /\ Len(digits) = Len(mantissa) -> "int64"
          [] allDigits /\ Len(digits) = Len(mantissa) - 1 -> "float64"
          [] OTHER -> "string"

\* C34: Build emits a textual column default with the type of its literal: every
\* base-10 integer literal, "0" and "1" among them, as an integer, "true" and "false"
\* as a boolean, a decimal literal as a float, any other text as a string.
C34_DefaultHasTheTypeOfItsLiteral ==
    (builders.last.op = "Build" /\ builders.impl[1].defaultValue # <<>>) =>
        builders.result[1]["FieldNameDefault"].type
          = LiteralType(builders.impl[1].defaultValue[1])

\* the same for every text that is none of the one-character forms ParseBool accepts
DefaultTypeBesideShortBooleans ==
    (/\ builders.last.op = "Build"
     /\ builders.impl[1].defaultValue # <<>>
     /\ builders.impl[1].defaultValue[1] \notin {<<"0">>, <<"1">>, <<"t">>}) =>
        builders.result[1]["FieldNameDefault"].type
          = LiteralType(builders.impl[1].defaultValue[1])

\* the fields of an offset beside lsn and timestamp are the same in both offsets
SameBesideLSNAndTimestamp(before, after) ==
    /\ DOMAIN after = DOMAIN before
    /\ \A field \in DOMAIN before \ {"LSN", "Timestamp"} : after[field] = before[field]

\* C35: AcknowledgeProcessed changes only the lsn and the timestamp of the offset stored
\* under its own replication slot name: the offsets stored under other slot names and
\* every other field of the slot's offset are the same before and after the call.
C35_AcknowledgeProcessedFrame ==
    [][lastCall'.op = "AcknowledgeProcessed" =>
          /\ DOMAIN offsets' \subseteq DOMAIN offsets \cup {replicationSlotName}
          /\ \A slot \in DOMAIN offsets :
                 /\ slot \in DOMAIN offsets'
                 /\ IF slot = replicationSlotName
                       THEN SameBesideLSNAndTimestamp(offsets[slot], offsets'[slot])
                       ELSE offsets'[slot] = offsets[slot]
          /\ storage' = storage]_vars

\* an AcknowledgeProcessed at server time 1 has written the offset of slot_a, which was
\* stored at time 0 with a watermark, while slot_b has an offset too
C35_Witness ==
    /\ lastCall.op = "AcknowledgeProcessed"
    /\ lastCall.err = ""
    /\ replicationSlotName = "slot_a"
    /\ "slot_b" \in DOMAIN offsets
    /\ "slot_a" \in DOMAIN offsets
    /\ offsets["slot_a"] = [LSN |-> 1, Timestamp |-> 1, Watermark |-> 1]

\* C36: when the state store's Get or Set fails during AcknowledgeProcessed, the error
\* is returned and the call has no effect: the in-memory lastProcessed and the offsets
\* held by the state store are the same as before the call.
C36_FailedAcknowledgeHasNoEffect ==
    [][(lastCall'.op = "AcknowledgeProcessed" /\ lastCall'.err # "") =>
          /\ lastProcessedLSN' = lastProcessedLSN
          /\ offsets' = offsets]_vars

\* the error is returned, and the offsets of the other slots and the back-end are as
\* before the call
FailedAcknowledgeReturnsTheError ==
    [][(lastCall'.op = "AcknowledgeProcessed" /\ lastCall'.err # "") =>
          /\ lastCall'.err \in {"get", "set"}
          /\ storage' = storage
          /\ \A slot \in DOMAIN offsets \ {replicationSlotName} :
                 slot \in DOMAIN offsets' /\ offsets'[slot] = offsets[slot]]_vars

\* C37: StopReplicationContext stops the dispatcher first and the state storage second,
\* and it stops (flushes) the state storage always, also when stopping the dispatcher
\* returns an error, so every offset acknowledged before the stop is flushed.
C37_StopAlwaysFlushes ==
    lastCall.op = "StopReplicationContext" => storage = offsets

\* a StopReplicationContext whose StopDispatcher returns no error flushes the offsets
StopWithoutErrorFlushes ==
    (lastCall.op = "StopReplicationContext" /\ lastCall.err = "") =>
        (storage = offsets /\ dispatcher.status = "closed")

\* goroutine g returns from SnapshotContextTransaction in this step with the error
Returns(g, err) ==
    /\ stateManager.calls[g].pc # "done"
    /\ stateManager'.calls[g].pc = "done"
    /\ stateManager'.calls[g].err = err

\* C38: when the transaction function returns an error, SnapshotContextTransaction
\* returns that error and the snapshot context held by the state store is the same as
\* before the call, for createIfNotExists false and true, with or without a context
\* stored before.
C38_FailedTransactionStoresNothing ==
    [][\A g \in Goroutines :
          Returns(g, "transaction") =>
              stateManager'.encoded = stateManager.calls[g].before]_vars

\* the same for the calls without createIfNotExists and for the calls that found a
\* context stored
FailedTransactionOnStoredContext ==
    [][\A g \in Goroutines :
          (/\ Returns(g, "transaction")
           /\ (~stateManager.calls[g].createIfNotExists
                  \/ stateManager.calls[g].before # <<>>)) =>
              stateManager'.encoded = stateManager.calls[g].before]_vars

\* C39: two SnapshotContextTransaction calls that run concurrently take effect as if
\* one ran after the other: when both succeed, the snapshot context held by the state
\* store contains the modifications of both transaction functions.
C39_NoLostUpdate ==
    (\A g \in Goroutines :
         stateManager.calls[g].pc = "done" /\ stateManager.calls[g].err = "") =>
        \A g \in Goroutines :
            stateManager.calls[g].hypertable \in Complete(stateManager.encoded)

\* C40: after SnapshotContextTransaction(snapshotName, createIfNotExists = true, tx)
\* succeeds, the snapshot context held by the state store has the snapshot name
\* snapshotName, also when a context of another name was stored before the call.
C40_ContextBelongsToSnapshotName ==
    [][\A g \in Goroutines :
          (Returns(g, "") /\ stateManager.calls[g].createIfNotExists) =>
              /\ stateManager'.encoded # <<>>
              /\ stateManager'.encoded[1].snapshotName
                   = stateManager.calls[g].snapshotName]_vars

\* the same for the calls that found no context stored
CreatedContextBelongsToSnapshotName ==
    [][\A g \in Goroutines :
          (/\ Returns(g, "")
           /\ stateManager.calls[g].createIfNotExists
           /\ stateManager.calls[g].before = <<>>) =>
              /\ stateManager'.encoded # <<>>
              /\ stateManager'.encoded[1].snapshotName
                   = stateManager.calls[g].snapshotName]_vars

====
